---- MODULE Spec2Model ----
(***************************************************************************)
(* A model of the Kilat language pipeline (rahmanazhar/Kilat-Lang):        *)
(* lexer (kilat_lexer2.py), parser (kilat_parser.py), tree interpreter     *)
(* (kilat_interpreter.py), bytecode compiler (kilat_compiler.py), code     *)
(* objects and the .klc serialiser (kilat_bytecode.py), stack VM           *)
(* (kilat_vm.py) and interactive shell (kilat_repl.py).                    *)
(*                                                                         *)
(* The module holds several specifications over one set of variables; a    *)
(* specification drives one component and leaves the other components'     *)
(* variables at their idle values.                                         *)
(***************************************************************************)
EXTENDS Integers, Sequences, FiniteSets, TLC

VARIABLES
    \* ---- KilatLexer2 (kilat_lexer2.py) ----
    source,          \* self.source, a sequence of one-character strings
    pos,             \* self.pos, 0-based index into source
    tokens,          \* self.tokens, the token kinds emitted so far
    indent_stack,    \* self.indent_stack
    at_line_start,   \* local flag of tokenize()
    lex_state,       \* "scan" | "returned" | "SyntaxError" | "TypeError"
    \* ---- truthiness (is_truthy, 'bukan', _is_truthy, UNARY_NOT) ----
    tv_value,        \* the runtime value under test
    tv_truth,        \* what each of the four code paths answered for it
    \* ---- kilat.py --compile-bc and --run-klc ----
    cp_program,      \* the parsed module
    cp_stage,        \* "source" | "compiled" | "file" | "loaded" | an error
    cp_code,         \* the CodeObject compile_kilat returned
    cp_file,         \* the bytes serialize_code produced
    cp_loaded,       \* what deserialize_code returned
    \* ---- kilat.py --native and --bytecode on one program ----
    rn_program,      \* the parsed module, or the parser's SyntaxError
    rn_stage,        \* "source" | "native" | "bytecode" | "done"
    rn_native,       \* how the tree interpreter's run ended
    rn_vm,           \* the state of the virtual machine
    \* ---- one call of a user function on each engine ----
    cl_def,          \* the FunctionDefNode of the function called
    cl_stage,        \* "source" | "native defined" | "loaded" | ... | "done"
    cl_st,           \* the interpreter's state once f is defined
    cl_vm,           \* the machine that executes the compiled definition
    cl_call,         \* the positional and keyword arguments of the call
    cl_native,       \* what KilatFunction.call did
    cl_bytecode,     \* what KilatVM._call_vm_function did
    \* ---- a block of statements executed on a chain of scopes ----
    sc_heap,         \* the scopes before the block: root first, current last
    sc_block,        \* the statements executed in the current scope
    sc_stage,        \* "start" | "native" | "bytecode"
    sc_native,       \* the scopes and output the interpreter left
    sc_vm,           \* the machine that executes the compiled block
    \* ---- one attribute read, and the call of what it gave ----
    at_shape,        \* the methods each class of the chain defines, the root class first
    at_instance,     \* the instance of the last class
    at_stage,        \* "built" | "native read" | "read" | "native called" | "called"
    at_read,         \* the attribute read and what each engine returned
    at_call,         \* the call of the bound method on the interpreter
    at_vm,           \* the machine that executes the bound method
    \* ---- KilatLexer2 at the start of successive lines of given indentation ----
    in_lexer,        \* the indent stack, the tokens and the state of the lexer
    in_before,       \* the same before the last line started
    in_level,        \* the indentation measured for the last line, -1 before the first
    in_lines,        \* the number of lines started
    \* ---- deserialize_code on a damaged .klc file ----
    ld_code,         \* the code object the file was written from
    ld_data,         \* the bytes of the file
    ld_damage,       \* what was done to the bytes: kind, place, byte
    ld_stage,        \* "file" | "damaged" | "loaded"
    ld_result,       \* what deserialize_code returned or raised
    \* ---- KilatParser on a token list ----
    ps_tokens,       \* the token list the lexer returned
    ps_stage,        \* "tokens" | "parsed" | "evaluated"
    ps_tree,         \* what the parse function returned: pos, node, error
    ps_value,        \* what the interpreter made of the tree
    \* ---- constant and name pools (SpecPool) ----
    pl_code,         \* the CodeObject whose pools grow
    pl_calls,        \* the add_constant and add_name calls made, with what each returned
    \* ---- the interactive shell (SpecRepl) ----
    rp_buffer,       \* the lines typed since the last snippet
    rp_st,           \* the interpreter state the snippets run against
    rp_running,      \* the loop of run has not ended
    rp_last,         \* what the last input did
    rp_inputs,       \* the number of inputs read
    \* ---- list comprehensions on the machine with list objects ----
    lc_program,      \* the syntax tree that is run
    lc_stage,        \* source, native, bytecode or idle
    lc_native,       \* what the interpreter wrote
    lc_m             \* the machine and its list objects

lexVars == <<source, pos, tokens, indent_stack, at_line_start, lex_state>>

truthVars == <<tv_value, tv_truth>>

cpVars == <<cp_program, cp_stage, cp_code, cp_file, cp_loaded>>

runVars == <<rn_program, rn_stage, rn_native, rn_vm>>

callVars == <<cl_def, cl_stage, cl_st, cl_vm, cl_call, cl_native, cl_bytecode>>

scopeVars == <<sc_heap, sc_block, sc_stage, sc_native, sc_vm>>

attrVars == <<at_shape, at_instance, at_stage, at_read, at_call, at_vm>>

indentVars == <<in_lexer, in_before, in_level, in_lines>>

loadVars == <<ld_code, ld_data, ld_damage, ld_stage, ld_result>>

parseVars == <<ps_tokens, ps_stage, ps_tree, ps_value>>

poolVars == <<pl_code, pl_calls>>

replVars == <<rp_buffer, rp_st, rp_running, rp_last, rp_inputs>>

compVars == <<lc_program, lc_stage, lc_native, lc_m>>

vars == <<lexVars, truthVars, cpVars, runVars, callVars, scopeVars, attrVars, indentVars, loadVars, parseVars, poolVars, replVars, compVars>>

notLex == <<truthVars, cpVars, runVars, callVars, scopeVars, attrVars, indentVars, loadVars, parseVars, poolVars, replVars, compVars>>

notTruth == <<lexVars, cpVars, runVars, callVars, scopeVars, attrVars, indentVars, loadVars, parseVars, poolVars, replVars, compVars>>

notCompile == <<lexVars, truthVars, runVars, callVars, scopeVars, attrVars, indentVars, loadVars, parseVars, poolVars, replVars, compVars>>

notRun == <<lexVars, truthVars, cpVars, callVars, scopeVars, attrVars, indentVars, loadVars, parseVars, poolVars, replVars, compVars>>

notCall == <<lexVars, truthVars, cpVars, runVars, scopeVars, attrVars, indentVars, loadVars, parseVars, poolVars, replVars, compVars>>

notScope == <<lexVars, truthVars, cpVars, runVars, callVars, attrVars, indentVars, loadVars, parseVars, poolVars, replVars, compVars>>

notAttr == <<lexVars, truthVars, cpVars, runVars, callVars, scopeVars, indentVars, loadVars, parseVars, poolVars, replVars, compVars>>

notIndent == <<lexVars, truthVars, cpVars, runVars, callVars, scopeVars, attrVars, loadVars, parseVars, poolVars, replVars, compVars>>

notLoad == <<lexVars, truthVars, cpVars, runVars, callVars, scopeVars, attrVars, indentVars, parseVars, poolVars, replVars, compVars>>

notParse == <<lexVars, truthVars, cpVars, runVars, callVars, scopeVars, attrVars, indentVars, loadVars, poolVars, replVars, compVars>>

notPool == <<lexVars, truthVars, cpVars, runVars, callVars, scopeVars, attrVars, indentVars, loadVars, parseVars, replVars, compVars>>

notRepl == <<lexVars, truthVars, cpVars, runVars, callVars, scopeVars, attrVars, indentVars, loadVars, parseVars, poolVars, compVars>>

notComp == <<lexVars, truthVars, cpVars, runVars, callVars, scopeVars, attrVars, indentVars, loadVars, parseVars, poolVars, replVars>>

(***************************************************************************)
(* Bounds of the model.                                                    *)
(***************************************************************************)
MaxSrcLen == 5

\* Longest module, in statements, handed to the compiler.
MaxStmts == 2

\* Largest number a closure program binds its variable to.
MaxValue == 2

\* Most parameters of the function called, and most positional arguments.
MaxParams == 2

MaxArgs == 3

\* Longest chain of scopes, and longest block executed in the current one.
MaxDepth == 3

MaxBlock == 2

\* Longest chain of classes below an instance.
MaxClasses == 3

\* Most decorators above one definition.
MaxDecorators == 2

\* Deepest indentation of a line, and most lines started.
MaxIndent == 3

MaxLines == 5

\* The deepest recursion of the recursive programs.
MaxRecursion == 3

\* The most binary operators of an expression.
MaxOperators == 2

\* The most handlers of a try statement.
MaxHandlers == 2

\* The greatest number an evaluated expression may meet.
MaxMagnitude == 30000

\* The greatest number of add_constant and add_name calls on one CodeObject.
MaxCalls == 4

\* The greatest number of inputs the interactive shell reads.
MaxInputs == 4

(***************************************************************************)
(* Generic helpers.                                                        *)
(***************************************************************************)
Last(s) == s[Len(s)]

\* The element of a one-element set.  Only({e(x) : x \in {v}}) is e(v) with
\* v evaluated once, however often e uses x.
Only(S) == CHOOSE y \in S : TRUE

Front(s) == SubSeq(s, 1, Len(s) - 1)

RECURSIVE CountOf(_, _)
CountOf(s, x) ==
    IF s = <<>> THEN 0
    ELSE (IF Head(s) = x THEN 1 ELSE 0) + CountOf(Tail(s), x)

(***************************************************************************)
(*                              LEXER                                      *)
(***************************************************************************)
\* The characters the modelled sources are drawn from: space, tab, newline,
\* comment sign, a letter, and a character no token starts with.
Alphabet == {" ", "\t", "\n", "#", "a", "$"}

Sources == UNION {[1..n -> Alphabet] : n \in 0..MaxSrcLen}

\* Python's None as returned by peek() at the end of the source.
NoChar == "None"

\* KilatLexer2.peek(offset=0) at position p.
peek(src, p) == IF p < Len(src) THEN src[p + 1] ELSE NoChar

\* The lexer as a record, threaded through the helper operators.
Lexer(src, p, toks, stack, als, st) ==
    [source |-> src, pos |-> p, tokens |-> toks, indent_stack |-> stack,
     at_line_start |-> als, lex_state |-> st]

\* tokenize(): the indentation-measuring loop `while self.peek() in ' \t'`.
\* `None in ' \t'` raises TypeError when the source ends inside the loop.
RECURSIVE MeasureIndent(_, _, _)
MeasureIndent(src, p, level) ==
    LET c == peek(src, p) IN
    IF c = NoChar THEN [pos |-> p, indent_level |-> level, crash |-> TRUE]
    ELSE IF c = "\t" THEN MeasureIndent(src, p + 1, (level \div 4 + 1) * 4)
    ELSE IF c = " " THEN MeasureIndent(src, p + 1, level + 1)
    ELSE [pos |-> p, indent_level |-> level, crash |-> FALSE]

\* KilatLexer2.skip_comment: from '#' up to, not including, the newline.
RECURSIVE SkipToEol(_, _)
SkipToEol(src, p) ==
    IF peek(src, p) # NoChar /\ peek(src, p) # "\n"
    THEN SkipToEol(src, p + 1) ELSE p

skip_comment(src, p) == IF peek(src, p) = "#" THEN SkipToEol(src, p) ELSE p

\* KilatLexer2.skip_whitespace(skip_newline=False).
RECURSIVE skip_whitespace(_, _)
skip_whitespace(src, p) ==
    IF peek(src, p) \in {" ", "\t", "\r"} THEN skip_whitespace(src, p + 1) ELSE p

\* KilatLexer2.read_identifier: the maximal run of identifier characters.
RECURSIVE IdentEnd(_, _)
IdentEnd(src, p) ==
    IF peek(src, p) = "a" THEN IdentEnd(src, p + 1) ELSE p

\* The dedent loop of handle_indentation.
RECURSIVE PopDedents(_, _, _)
PopDedents(stack, toks, indent_level) ==
    IF indent_level < Last(stack)
    THEN PopDedents(Front(stack), Append(toks, "DEDENT"), indent_level)
    ELSE [indent_stack |-> stack, tokens |-> toks]

\* A plausible slip in handle_indentation: INDENT is emitted but the new
\* level is not pushed.
handle_indentation_NoPush(L, indent_level) ==
    LET d == PopDedents(L.indent_stack,
                        IF indent_level > Last(L.indent_stack)
                        THEN Append(L.tokens, "INDENT") ELSE L.tokens,
                        indent_level)
    IN [L EXCEPT !.indent_stack = d.indent_stack, !.tokens = d.tokens]

\* KilatLexer2.handle_indentation.
handle_indentation(L, indent_level) ==
    LET current_indent == Last(L.indent_stack)
        pushed == IF indent_level > current_indent
                  THEN [indent_stack |-> Append(L.indent_stack, indent_level),
                        tokens |-> Append(L.tokens, "INDENT")]
                  ELSE [indent_stack |-> L.indent_stack, tokens |-> L.tokens]
        d == PopDedents(pushed.indent_stack, pushed.tokens, indent_level)
    IN IF indent_level # Last(d.indent_stack)
       THEN [L EXCEPT !.indent_stack = d.indent_stack, !.tokens = d.tokens,
                      !.lex_state = "SyntaxError"]
       ELSE [L EXCEPT !.indent_stack = d.indent_stack, !.tokens = d.tokens]

\* tokenize(): the part of one loop iteration after the line-start block.
ScanToken(L) ==
    LET p == skip_whitespace(L.source, L.pos)
        char == peek(L.source, p)
    IN IF char = NoChar THEN [L EXCEPT !.pos = p]                 \* break
       ELSE IF char = "#" THEN [L EXCEPT !.pos = skip_comment(L.source, p)]
       ELSE IF char = "\n"
            THEN [L EXCEPT !.pos = p + 1,
                           !.tokens = Append(L.tokens, "NEWLINE"),
                           !.at_line_start = TRUE]
       ELSE IF char = "a"
            THEN [L EXCEPT !.pos = IdentEnd(L.source, p),
                           !.tokens = Append(L.tokens, "IDENTIFIER")]
       ELSE [L EXCEPT !.pos = p + 1, !.lex_state = "SyntaxError"]

\* tokenize(): one iteration of `while self.pos < len(self.source)`.
TokenizeIteration(L) ==
    IF L.at_line_start
    THEN LET m == MeasureIndent(L.source, L.pos, 0)
             c == peek(L.source, m.pos)
         IN IF m.crash THEN [L EXCEPT !.pos = m.pos, !.lex_state = "TypeError"]
            ELSE IF c \in {"\n", "\r", "#"}
                 THEN LET q == skip_comment(L.source, m.pos)
                      IN [L EXCEPT !.pos = IF peek(L.source, q) = "\n"
                                           THEN q + 1 ELSE q]
            ELSE LET H == handle_indentation([L EXCEPT !.pos = m.pos],
                                             m.indent_level)
                 IN IF H.lex_state # "scan" THEN H
                    ELSE ScanToken([H EXCEPT !.at_line_start = FALSE])
    ELSE ScanToken(L)

\* The closing loop of tokenize(): remaining DEDENTs.
RECURSIVE RemainingDedents(_, _)
RemainingDedents(stack, toks) ==
    IF Len(stack) > 1
    THEN RemainingDedents(Front(stack), Append(toks, "DEDENT"))
    ELSE [indent_stack |-> stack, tokens |-> toks]

\* tokenize(): after the loop, DEDENTs, EOF and the return.
TokenizeReturn(L) ==
    LET d == RemainingDedents(L.indent_stack, L.tokens)
    IN [L EXCEPT !.indent_stack = d.indent_stack,
                 !.tokens = Append(d.tokens, "EOF"),
                 !.lex_state = "returned"]

CurrentLexer == Lexer(source, pos, tokens, indent_stack, at_line_start, lex_state)

SetLexer(L) ==
    /\ source' = L.source
    /\ pos' = L.pos
    /\ tokens' = L.tokens
    /\ indent_stack' = L.indent_stack
    /\ at_line_start' = L.at_line_start
    /\ lex_state' = L.lex_state

\* KilatLexer2.__init__ for an arbitrary source.
LexInit ==
    /\ source \in Sources
    /\ pos = 0
    /\ tokens = <<>>
    /\ indent_stack = <<0>>
    /\ at_line_start = TRUE
    /\ lex_state = "scan"

LexIdle ==
    /\ source = <<>>
    /\ pos = 0
    /\ tokens = <<>>
    /\ indent_stack = <<0>>
    /\ at_line_start = TRUE
    /\ lex_state = "idle"

LexStep ==
    /\ lex_state = "scan"
    /\ pos < Len(source)
    /\ SetLexer(TokenizeIteration(CurrentLexer))
    /\ UNCHANGED notLex

LexFinish ==
    /\ lex_state = "scan"
    /\ pos >= Len(source)
    /\ SetLexer(TokenizeReturn(CurrentLexer))
    /\ UNCHANGED notLex

LexNext == LexStep \/ LexFinish

\* ---- claims about the lexer ----

RECURSIVE PrefixBalanced(_, _)
PrefixBalanced(toks, depth) ==
    IF toks = <<>> THEN depth = 0
    ELSE IF Head(toks) = "INDENT" THEN PrefixBalanced(Tail(toks), depth + 1)
    ELSE IF Head(toks) = "DEDENT"
         THEN depth > 0 /\ PrefixBalanced(Tail(toks), depth - 1)
    ELSE PrefixBalanced(Tail(toks), depth)

\* C1: whenever tokenize returns a token list, no prefix of the list holds
\* more DEDENTs than INDENTs, the totals are equal, and the indent stack is
\* exactly [0].
C1_IndentBalanced ==
    lex_state = "returned" =>
        /\ PrefixBalanced(tokens, 0)
        /\ CountOf(tokens, "INDENT") = CountOf(tokens, "DEDENT")
        /\ indent_stack = <<0>>

\* C1 witness: an accepted source with two nested INDENTs, both closed.
C1_Witness ==
    /\ lex_state = "returned"
    /\ CountOf(tokens, "INDENT") = 2
    /\ CountOf(tokens, "DEDENT") = 2

\* C39: tokenize is total up to lexical errors: for every source it either
\* returns a token list that ends with EOF and holds exactly one EOF, or
\* fails with a lexical error (SyntaxError), and with no other error.
C39_TokenizeTotal ==
    /\ lex_state \in {"idle", "scan", "returned", "SyntaxError"}
    /\ lex_state = "returned" =>
          /\ tokens # <<>>
          /\ Last(tokens) = "EOF"
          /\ CountOf(tokens, "EOF") = 1

(***************************************************************************)
(*                          RUNTIME VALUES                                 *)
(* A runtime value is a record [k |-> kind, v |-> payload].  Besides the   *)
(* kinds the language creates itself, a program reaches host objects       *)
(* through attribute access on native values (getattr), e.g. the bytes of  *)
(* "".encode() or the key view of {}.keys().                               *)
(***************************************************************************)
Val(kind, payload) == [k |-> kind, v |-> payload]

NoneV == Val("none", "None")

BoolV(b) == Val("bool", b)

IntV(n) == Val("int", n)

\* A float is named by its literal; FloatZeros are the literals equal to 0.
FloatV(lit) == Val("float", lit)

FloatZeros == {"0.0", "-0.0"}

StrV(s) == Val("str", s)

ListV(items) == Val("list", items)

TupleV(items) == Val("tuple", items)

\* A dict is the sequence of its <<key, value>> items in insertion order.
DictV(items) == Val("dict", items)

\* A set is the sequence of its members without repetition.
SetV(items) == Val("set", items)

\* Kinds whose Python type defines __len__.
SizedKinds == {"str", "list", "tuple", "dict", "set", "bytes", "dict_keys"}

\* len(value) for the sized kinds; a str payload is a TLA+ string.
PyLen(value) ==
    IF value.k = "str" THEN (IF value.v = "" THEN 0 ELSE 1)
    ELSE Len(value.v)

\* value == 0 for int, float and bool operands.
NumIsZero(value) ==
    CASE value.k = "int" -> value.v = 0
      [] value.k = "float" -> value.v \in FloatZeros
      [] value.k = "bool" -> value.v = FALSE
      [] OTHER -> FALSE

\* KilatInterpreter.is_truthy.
is_truthy(value) ==
    IF value.k = "none" \/ (value.k = "bool" /\ value.v = FALSE) THEN FALSE
    ELSE IF value.k \in {"int", "float", "bool"} /\ NumIsZero(value) THEN FALSE
    ELSE IF value.k \in {"str", "list", "dict", "tuple", "set"} /\ PyLen(value) = 0
         THEN FALSE
    ELSE TRUE

\* KilatVM._is_truthy.
vm_is_truthy(value) ==
    IF value.k = "none" \/ (value.k = "bool" /\ value.v = FALSE) THEN FALSE
    ELSE IF value.k \in {"int", "float", "bool"} /\ NumIsZero(value) THEN FALSE
    ELSE IF value.k \in {"str", "list", "dict", "tuple", "set"} /\ PyLen(value) = 0
         THEN FALSE
    ELSE TRUE

\* The host's truth test, which Python's `not operand` applies: None and
\* False are false, a number is false when zero, an object with __len__ is
\* false when empty, any other object is true.
PyTruth(value) ==
    CASE value.k = "none" -> FALSE
      [] value.k \in {"bool", "int", "float"} -> ~NumIsZero(value)
      [] value.k \in SizedKinds -> PyLen(value) # 0
      [] OTHER -> TRUE

\* KilatInterpreter.eval, UnaryOpNode with operator 'bukan': `not operand`.
eval_bukan(operand) == BoolV(~PyTruth(operand))

\* KilatVM._execute_frame, UNARY_NOT: `not self._is_truthy(frame.pop())`.
UNARY_NOT(operand) == BoolV(~vm_is_truthy(operand))

\* Values of every kind, zero/empty and not, that a program can hold.
TruthSample ==
    { NoneV, BoolV(TRUE), BoolV(FALSE),
      IntV(0), IntV(1), IntV(-3),
      FloatV("0.0"), FloatV("-0.0"), FloatV("1.5"), FloatV("nan"),
      StrV(""), StrV("a"),
      ListV(<<>>), ListV(<<IntV(0)>>),
      TupleV(<<>>), TupleV(<<NoneV>>),
      DictV(<<>>), DictV(<< <<StrV("a"), IntV(0)>> >>),
      SetV(<<>>), SetV(<<IntV(0)>>),
      Val("slice", <<NoneV, NoneV, NoneV>>),
      Val("function", "f"), Val("class", "K"), Val("instance", "K"),
      Val("builtin", "cetak"), Val("module", "math"),
      Val("iterator", <<>>),
      Val("bytes", <<>>), Val("bytes", <<97>>),
      Val("dict_keys", <<>>), Val("dict_keys", <<StrV("a")>>) }

Unset == Val("unset", "unset")

IdleV == Val("idle", "idle")

TruthInit ==
    /\ tv_value \in TruthSample
    /\ tv_truth = [is_truthy |-> Unset, bukan |-> Unset,
                   vm_is_truthy |-> Unset, UNARY_NOT |-> Unset]

TruthIdle ==
    /\ tv_value = NoneV
    /\ tv_truth = [is_truthy |-> IdleV, bukan |-> IdleV,
                   vm_is_truthy |-> IdleV, UNARY_NOT |-> IdleV]

\* `jika v:` and `selagi v:` in the interpreter.
ApplyIsTruthy ==
    /\ tv_truth.is_truthy = Unset
    /\ tv_truth' = [tv_truth EXCEPT !.is_truthy = BoolV(is_truthy(tv_value))]
    /\ UNCHANGED <<tv_value, notTruth>>

\* `bukan v` in the interpreter.
ApplyBukan ==
    /\ tv_truth.bukan = Unset
    /\ tv_truth' = [tv_truth EXCEPT !.bukan = eval_bukan(tv_value)]
    /\ UNCHANGED <<tv_value, notTruth>>

\* The conditional jumps of the VM.
ApplyVMIsTruthy ==
    /\ tv_truth.vm_is_truthy = Unset
    /\ tv_truth' = [tv_truth EXCEPT !.vm_is_truthy = BoolV(vm_is_truthy(tv_value))]
    /\ UNCHANGED <<tv_value, notTruth>>

\* `bukan v` on the VM.
ApplyUnaryNot ==
    /\ tv_truth.UNARY_NOT = Unset
    /\ tv_truth' = [tv_truth EXCEPT !.UNARY_NOT = UNARY_NOT(tv_value)]
    /\ UNCHANGED <<tv_value, notTruth>>

TruthNext == ApplyIsTruthy \/ ApplyBukan \/ ApplyVMIsTruthy \/ ApplyUnaryNot

\* ---- claims about truthiness ----

\* The truth table of the language: None, false, numeric zero and the empty
\* string, list, dict, tuple and set are false; everything else is true.
TruthTable(value) ==
    ~ \/ value.k = "none"
      \/ value.k = "bool" /\ value.v = FALSE
      \/ value.k \in {"int", "float"} /\ NumIsZero(value)
      \/ value.k \in {"str", "list", "dict", "tuple", "set"} /\ PyLen(value) = 0

\* C6: truthiness is the same total function on both engines: is_truthy,
\* the 'bukan' operator, _is_truthy and UNARY_NOT all follow the truth table
\* of the language for every value.
C6_TruthinessAgrees ==
    /\ tv_truth.is_truthy.k = "bool"
          => tv_truth.is_truthy = BoolV(TruthTable(tv_value))
    /\ tv_truth.vm_is_truthy.k = "bool"
          => tv_truth.vm_is_truthy = BoolV(TruthTable(tv_value))
    /\ tv_truth.bukan.k = "bool"
          => tv_truth.bukan = BoolV(~TruthTable(tv_value))
    /\ tv_truth.UNARY_NOT.k = "bool"
          => tv_truth.UNARY_NOT = BoolV(~TruthTable(tv_value))

(***************************************************************************)
(*                       ABSTRACT SYNTAX (kilat_ast.py)                    *)
(* A node is a record tagged by t with the fields of its dataclass; line   *)
(* is kept where the compiler copies it into instructions.  An optional    *)
(* name that is None is the empty string, an optional body that is None is *)
(* the empty sequence, an optional expression that is None is NoNode.      *)
(***************************************************************************)
NoName == ""

NoNode == [t |-> "NoNode"]

NumberNode(value) == [t |-> "NumberNode", value |-> value]

StringNode(s) == [t |-> "StringNode", value |-> StrV(s)]

BooleanNode(b) == [t |-> "BooleanNode", value |-> BoolV(b)]

NoneNode == [t |-> "NoneNode"]

IdentifierNode(name) == [t |-> "IdentifierNode", name |-> name]

ListNode(elements) == [t |-> "ListNode", elements |-> elements]

TupleNode(elements) == [t |-> "TupleNode", elements |-> elements]

BinaryOpNode(left, operator, right) ==
    [t |-> "BinaryOpNode", left |-> left, operator |-> operator, right |-> right]

UnaryOpNode(operator, operand) ==
    [t |-> "UnaryOpNode", operator |-> operator, operand |-> operand]

AssignmentNode(target, value) ==
    [t |-> "AssignmentNode", target |-> target, value |-> value]

AugmentedAssignmentNode(target, operator, value) ==
    [t |-> "AugmentedAssignmentNode", target |-> target, operator |-> operator,
     value |-> value]

GlobalNode(names) == [t |-> "GlobalNode", names |-> names]

\* keyword_args is the sequence of <<name, expression>> in source order.
FunctionCallNode(function, arguments, keyword_args) ==
    [t |-> "FunctionCallNode", function |-> function, arguments |-> arguments,
     keyword_args |-> keyword_args]

Call(name, arguments) == FunctionCallNode(name, arguments, <<>>)

IfNode(condition, then_body, else_body) ==
    [t |-> "IfNode", condition |-> condition, then_body |-> then_body,
     elif_parts |-> <<>>, else_body |-> else_body]

WhileNode(condition, body) ==
    [t |-> "WhileNode", condition |-> condition, body |-> body]

ForNode(variable, variables, iterable, body) ==
    [t |-> "ForNode", variable |-> variable, variables |-> variables,
     iterable |-> iterable, body |-> body]

BreakNode == [t |-> "BreakNode"]

ContinueNode == [t |-> "ContinueNode"]

PassNode == [t |-> "PassNode"]

ReturnNode(value) == [t |-> "ReturnNode", value |-> value]

FunctionDefNode(name, parameters, defaults, var_args, kw_args, body) ==
    [t |-> "FunctionDefNode", name |-> name, parameters |-> parameters,
     defaults |-> defaults, var_args |-> var_args, kw_args |-> kw_args,
     body |-> body, decorators |-> <<>>]

\* The definition with the decorator expressions written above it, in
\* source order.
Decorated(node, decorators) == [node EXCEPT !.decorators = decorators]

\* base_class is the name of the base, NoName for none.
ClassDefNode(name, base_class, body, decorators) ==
    [t |-> "ClassDefNode", name |-> name, base_class |-> base_class, body |-> body,
     decorators |-> decorators]

\* except_clauses is a sequence of <<exception_type, alias, body>>.
TryNode(try_body, except_clauses, finally_body, line) ==
    [t |-> "TryNode", try_body |-> try_body, except_clauses |-> except_clauses,
     finally_body |-> finally_body, line |-> line]

RaiseNode(exception) == [t |-> "RaiseNode", exception |-> exception]

\* dari module import names[1] [sebagai aliases[1]], ...; an alias not
\* written is NoName.
FromImportNode(module, names, aliases, line) ==
    [t |-> "FromImportNode", module |-> module, names |-> names,
     aliases |-> aliases, line |-> line]

ListCompNode(expression, variable, iterable, condition) ==
    [t |-> "ListCompNode", expression |-> expression, variable |-> variable,
     variables |-> <<>>, iterable |-> iterable, condition |-> condition]

ProgramNode(statements) == [t |-> "ProgramNode", statements |-> statements]

Num(n) == NumberNode(IntV(n))

Id(name) == IdentifierNode(name)

Cetak(arguments) == FunctionCallNode("cetak", arguments, <<>>)

(***************************************************************************)
(*                  PARSER (kilat_parser.py, KilatParser)                  *)
(* The parser works on the token list the lexer returns; a token is a      *)
(* record [type, value].  A parse function takes the list and a 0-based    *)
(* position and gives [at, node, error]: the position after what it read  *)
(* and the node built, or error = "SyntaxError" where the code calls       *)
(* self.error.  Lines and columns are left out of the nodes.  Subscripts,  *)
(* attributes, list and dict displays, tuples, keyword arguments, lambda   *)
(* and the ternary form give error = "unmodelled".                         *)
(***************************************************************************)
Token(type, value) == [type |-> type, value |-> value]

\* KilatParser.current_token at position at.
current_token(toks, at) ==
    IF at < Len(toks) THEN toks[at + 1] ELSE toks[Len(toks)]

Parsed(at, node) == [pos |-> at, node |-> node, error |-> ""]

SyntaxErrorAt(at) == [pos |-> at, node |-> NoNode, error |-> "SyntaxError"]

UnmodelledAt(at) == [pos |-> at, node |-> NoNode, error |-> "unmodelled"]

\* KilatParser.advance: the position does not move past EOF.
advance(toks, at) == IF current_token(toks, at).type # "EOF" THEN at + 1 ELSE at

\* KilatParser.expect: the token read, or the error.
expect(toks, at, type) ==
    IF current_token(toks, at).type # type THEN SyntaxErrorAt(at)
    ELSE Parsed(advance(toks, at), current_token(toks, at))

RECURSIVE skip_newlines(_, _)
skip_newlines(toks, at) ==
    IF current_token(toks, at).type = "NEWLINE"
    THEN skip_newlines(toks, at + 1) ELSE at

CMP_TYPES == {"EQ", "NE", "LT", "GT", "LE", "GE", "DALAM", "ADALAH"}

\* The token types each `while self.current_token().type in ...` loop of
\* parse_or, parse_and, parse_comparison, parse_addition and
\* parse_multiplication goes on for.
LevelTokens ==
    [or |-> {"ATAU_LOGIK"},
     and |-> {"DAN"},
     comparison |-> CMP_TYPES,
     addition |-> {"PLUS", "MINUS"},
     multiplication |-> {"MULTIPLY", "DIVIDE", "FLOOR_DIV", "MODULO"}]

\* The operator a BinaryOpNode is given for an operator token.
operator_of(token) ==
    CASE token.type = "ATAU_LOGIK" -> "atau_logik"
      [] token.type = "DAN" -> "dan"
      [] token.type = "DALAM" -> "dalam"
      [] token.type = "ADALAH" -> "adalah"
      [] OTHER -> token.value

\* BinaryOpNode(left, operator, right) once the right operand is parsed.
join(left, operator, right) ==
    IF right.error # "" THEN right
    ELSE Parsed(right.pos, BinaryOpNode(left.node, operator, right.node))

\* UnaryOpNode(operator, operand) once the operand is parsed.
prefix(operator, operand) ==
    IF operand.error # "" THEN operand
    ELSE Parsed(operand.pos, UnaryOpNode(operator, operand.node))

RECURSIVE parse_expression(_, _), parse_or(_, _), parse_and(_, _), parse_not(_, _),
          parse_comparison(_, _), parse_addition(_, _), parse_multiplication(_, _),
          parse_power(_, _), parse_unary(_, _), parse_postfix(_, _),
          parse_primary(_, _), operand_of(_, _, _), left_loop(_, _, _),
          power_tail(_, _), postfix_loop(_, _), _parse_call_args(_, _, _),
          after_argument(_, _, _), string_run(_, _, _)

\* The operand of a level: the parse function of the next level.
operand_of(toks, at, level) ==
    CASE level = "or" -> parse_and(toks, at)
      [] level = "and" -> parse_not(toks, at)
      [] level = "comparison" -> parse_addition(toks, at)
      [] level = "addition" -> parse_multiplication(toks, at)
      [] level = "multiplication" -> parse_power(toks, at)

\* The while loop of a left-associative level: left is what is built so far.
left_loop(toks, left, level) ==
    IF left.error # "" THEN left
    ELSE IF current_token(toks, left.pos).type \in LevelTokens[level]
    THEN left_loop(toks,
                   join(left, operator_of(current_token(toks, left.pos)),
                        operand_of(toks, left.pos + 1, level)),
                   level)
    ELSE left

parse_or(toks, at) == left_loop(toks, parse_and(toks, at), "or")

parse_and(toks, at) == left_loop(toks, parse_not(toks, at), "and")

parse_not(toks, at) ==
    IF current_token(toks, at).type = "BUKAN"
    THEN prefix("bukan", parse_not(toks, at + 1))
    ELSE parse_comparison(toks, at)

parse_comparison(toks, at) ==
    left_loop(toks, parse_addition(toks, at), "comparison")

parse_addition(toks, at) ==
    left_loop(toks, parse_multiplication(toks, at), "addition")

\* A multiplicative level that takes the whole rest of the expression as
\* its right operand.
parse_multiplication_Greedy(toks, at) ==
    left_loop(toks, parse_power(toks, at), "addition")

parse_multiplication(toks, at) ==
    left_loop(toks, parse_power(toks, at), "multiplication")

\* parse_power after its left operand: `**` takes parse_power on the right.
power_tail(toks, left) ==
    IF left.error # "" THEN left
    ELSE IF current_token(toks, left.pos).type = "POWER"
    THEN join(left, current_token(toks, left.pos).value,
              parse_power(toks, left.pos + 1))
    ELSE left

parse_power(toks, at) == power_tail(toks, parse_unary(toks, at))

parse_unary(toks, at) ==
    IF current_token(toks, at).type = "MINUS"
    THEN prefix("-", parse_unary(toks, at + 1))
    ELSE IF current_token(toks, at).type = "PLUS"
    THEN parse_unary(toks, at + 1)
    ELSE parse_postfix(toks, at)

\* The argument loop of _parse_call_args after one argument.
after_argument(toks, argument, arguments) ==
    IF argument.error # "" THEN argument
    ELSE IF current_token(toks, argument.pos).type = "COMMA"
    THEN _parse_call_args(toks, argument.pos + 1, Append(arguments, argument.node))
    ELSE Parsed(argument.pos, Append(arguments, argument.node))

_parse_call_args(toks, at, arguments) ==
    IF current_token(toks, at).type = "RPAREN" THEN Parsed(at, arguments)
    ELSE IF /\ current_token(toks, at).type = "IDENTIFIER"
            /\ current_token(toks, at + 1).type = "ASSIGN"
    THEN UnmodelledAt(at)
    ELSE after_argument(toks, parse_expression(toks, at), arguments)

\* The call branch of parse_postfix once the arguments are parsed.
call_node(toks, expr, arguments) ==
    IF arguments.error # "" THEN arguments
    ELSE IF current_token(toks, arguments.pos).type # "RPAREN"
    THEN SyntaxErrorAt(arguments.pos)
    ELSE Parsed(arguments.pos + 1,
                FunctionCallNode(IF expr.node.t = "IdentifierNode"
                                 THEN expr.node.name ELSE expr.node,
                                 arguments.node, <<>>))

\* The `while True` loop of parse_postfix.
postfix_loop(toks, expr) ==
    IF expr.error # "" THEN expr
    ELSE IF current_token(toks, expr.pos).type = "LPAREN"
    THEN postfix_loop(toks,
                      call_node(toks, expr,
                                _parse_call_args(toks, expr.pos + 1, <<>>)))
    ELSE IF current_token(toks, expr.pos).type \in {"LBRACKET", "DOT"}
    THEN UnmodelledAt(expr.pos)
    ELSE expr

parse_postfix(toks, at) == postfix_loop(toks, parse_primary(toks, at))

\* Consecutive string literals are concatenated.
string_run(toks, at, value) ==
    IF current_token(toks, at).type = "STRING"
    THEN string_run(toks, at + 1, value \o current_token(toks, at).value)
    ELSE Parsed(at, StringNode(value))

\* The parenthesis branch of parse_primary once the expression is parsed.
close_paren(toks, expr) ==
    IF expr.error # "" THEN expr
    ELSE IF current_token(toks, expr.pos).type = "COMMA" THEN UnmodelledAt(expr.pos)
    ELSE IF current_token(toks, expr.pos).type # "RPAREN" THEN SyntaxErrorAt(expr.pos)
    ELSE Parsed(expr.pos + 1, expr.node)

parse_primary(toks, at) ==
    LET token == current_token(toks, at)
    IN CASE token.type = "NUMBER" -> Parsed(at + 1, Num(token.value))
         [] token.type = "STRING" -> string_run(toks, at + 1, token.value)
         [] token.type = "BENAR" -> Parsed(at + 1, BooleanNode(TRUE))
         [] token.type = "SALAH" -> Parsed(at + 1, BooleanNode(FALSE))
         [] token.type = "TIADA" -> Parsed(at + 1, NoneNode)
         [] token.type = "IDENTIFIER" -> Parsed(at + 1, Id(token.value))
         [] token.type = "LPAREN" ->
               IF current_token(toks, at + 1).type = "RPAREN"
               THEN Parsed(at + 2, TupleNode(<<>>))
               ELSE close_paren(toks, parse_expression(toks, at + 1))
         [] token.type \in {"FSTRING", "LBRACKET", "LBRACE"} -> UnmodelledAt(at)
         [] OTHER -> SyntaxErrorAt(at)

\* parse_expression after parse_or: `jika` opens the ternary form.
ternary_tail(toks, expr) ==
    IF expr.error = "" /\ current_token(toks, expr.pos).type = "JIKA"
    THEN UnmodelledAt(expr.pos) ELSE expr

parse_expression(toks, at) ==
    IF current_token(toks, at).type = "LAMBDA" THEN UnmodelledAt(at)
    ELSE ternary_tail(toks, parse_or(toks, at))

\* The statement keywords whose parse functions are not modelled.
OtherStatements ==
    {"AT", "SELAGI", "UNTUK", "FUNGSI", "KELAS", "KEMBALI", "IMPORT", "DARI",
     "GLOBAL", "NONLOKAL", "PADAM", "DENGAN", "BERIKAN"}

AugAssignTokens ==
    {"PLUS_ASSIGN", "MINUS_ASSIGN", "STAR_ASSIGN", "SLASH_ASSIGN",
     "FLOOR_DIV_ASSIGN", "POWER_ASSIGN", "MODULO_ASSIGN"}

RECURSIVE parse_statement(_, _), parse_block(_, _), block_loop(_, _, _),
          after_block_statement(_, _, _), parse_if(_, _), parse_try(_, _),
          except_loop(_, _, _, _), after_except_body(_, _, _, _, _)

\* The assignment branch of parse_expression_statement once the value is
\* parsed by _parse_tuple_or_expr.
assignment_node(toks, expr, value) ==
    IF value.error # "" THEN value
    ELSE IF current_token(toks, value.pos).type = "COMMA" THEN UnmodelledAt(value.pos)
    ELSE IF expr.node.t = "IdentifierNode"
    THEN Parsed(skip_newlines(toks, value.pos), AssignmentNode(expr.node.name, value.node))
    ELSE SyntaxErrorAt(skip_newlines(toks, value.pos))

\* parse_expression_statement after its first expression.
statement_tail(toks, expr) ==
    IF expr.error # "" THEN expr
    ELSE IF current_token(toks, expr.pos).type = "ASSIGN"
    THEN assignment_node(toks, expr, parse_expression(toks, expr.pos + 1))
    ELSE IF \/ current_token(toks, expr.pos).type \in AugAssignTokens
            \/ /\ current_token(toks, expr.pos).type = "COMMA"
               /\ expr.node.t = "IdentifierNode"
    THEN UnmodelledAt(expr.pos)
    ELSE Parsed(skip_newlines(toks, expr.pos), expr.node)

parse_expression_statement(toks, at) == statement_tail(toks, parse_expression(toks, at))

\* parse_raise after the keyword.
raise_node(toks, exception) ==
    IF exception.error # "" THEN exception
    ELSE Parsed(skip_newlines(toks, exception.pos), RaiseNode(exception.node))

parse_raise(toks, at) == raise_node(toks, parse_expression(toks, at + 1))

\* The statement loop of parse_block after one statement.
after_block_statement(toks, stmt, statements) ==
    IF stmt.error # "" THEN stmt
    ELSE block_loop(toks, skip_newlines(toks, stmt.pos), Append(statements, stmt.node))

block_loop(toks, at, statements) ==
    IF current_token(toks, at).type = "DEDENT" THEN Parsed(at + 1, statements)
    ELSE IF current_token(toks, at).type = "EOF" THEN Parsed(at, statements)
    ELSE after_block_statement(toks, parse_statement(toks, at), statements)

\* parse_block: COLON, newlines, INDENT, statements up to DEDENT or EOF.
parse_block(toks, at) ==
    IF current_token(toks, at).type # "COLON" THEN SyntaxErrorAt(at)
    ELSE IF current_token(toks, skip_newlines(toks, at + 1)).type # "INDENT"
    THEN SyntaxErrorAt(skip_newlines(toks, at + 1))
    ELSE block_loop(toks, skip_newlines(toks, at + 1) + 1, <<>>)

\* parse_if once the else block, if there is one, is parsed.
if_node(condition, then_body, else_body) ==
    IF else_body.error # "" THEN else_body
    ELSE Parsed(else_body.pos, IfNode(condition.node, then_body.node, else_body.node))

\* parse_if after the then block.
if_tail(toks, condition, then_body, at) ==
    IF current_token(toks, at).type = "ATAUJIKA" THEN UnmodelledAt(at)
    ELSE IF current_token(toks, at).type = "ATAU"
    THEN if_node(condition, then_body, parse_block(toks, at + 1))
    ELSE Parsed(at, IfNode(condition.node, then_body.node, <<>>))

if_then(toks, condition, then_body) ==
    IF then_body.error # "" THEN then_body
    ELSE if_tail(toks, condition, then_body, skip_newlines(toks, then_body.pos))

if_condition(toks, condition) ==
    IF condition.error # "" THEN condition
    ELSE if_then(toks, condition, parse_block(toks, condition.pos))

parse_if(toks, at) == if_condition(toks, parse_expression(toks, at + 1))

\* parse_try once the finally block, if there is one, is parsed.
try_node(try_body, except_clauses, finally_body) ==
    IF finally_body.error # "" THEN finally_body
    ELSE Parsed(finally_body.pos,
                TryNode(try_body, except_clauses, finally_body.node, 0))

\* parse_try after the handlers.
try_tail(toks, at, try_body, except_clauses) ==
    IF current_token(toks, at).type = "AKHIRNYA"
    THEN try_node(try_body, except_clauses, parse_block(toks, at + 1))
    ELSE Parsed(at, TryNode(try_body, except_clauses, <<>>, 0))

\* The head of a handler after `tangkap`: exception_type and
\* exception_alias.  The alias is looked for after a type name only.
clause_head(toks, at) ==
    IF current_token(toks, at).type = "IDENTIFIER"
    THEN IF current_token(toks, at + 1).type = "SEBAGAI"
         THEN IF current_token(toks, at + 2).type # "IDENTIFIER"
              THEN [SyntaxErrorAt(at + 2) EXCEPT !.node = <<NoName, NoName>>]
              ELSE Parsed(at + 3, <<current_token(toks, at).value,
                                    current_token(toks, at + 2).value>>)
         ELSE Parsed(at + 1, <<current_token(toks, at).value, NoName>>)
    ELSE Parsed(at, <<NoName, NoName>>)

\* The handler loop of parse_try once the body of a handler is parsed.
after_except_body(toks, try_body, except_clauses, head, except_body) ==
    IF except_body.error # "" THEN except_body
    ELSE except_loop(toks, skip_newlines(toks, except_body.pos), try_body,
                     Append(except_clauses,
                            <<head.node[1], head.node[2], except_body.node>>))

\* The handler loop once the head of a handler is read.
except_body_of(toks, try_body, except_clauses, head) ==
    IF head.error # "" THEN [head EXCEPT !.node = NoNode]
    ELSE after_except_body(toks, try_body, except_clauses, head,
                           parse_block(toks, head.pos))

except_loop(toks, at, try_body, except_clauses) ==
    IF current_token(toks, at).type = "TANGKAP"
    THEN except_body_of(toks, try_body, except_clauses, clause_head(toks, at + 1))
    ELSE try_tail(toks, at, try_body, except_clauses)

try_handlers(toks, try_body) ==
    IF try_body.error # "" THEN try_body
    ELSE except_loop(toks, skip_newlines(toks, try_body.pos), try_body.node, <<>>)

parse_try(toks, at) == try_handlers(toks, parse_block(toks, at + 1))

\* parse_statement on the token at `at`, newlines skipped.
statement_at(toks, at) ==
    LET type == current_token(toks, at).type
    IN CASE type = "JIKA" -> parse_if(toks, at)
         [] type = "CUBA" -> parse_try(toks, at)
         [] type = "BANGKIT" -> parse_raise(toks, at)
         [] type = "BERHENTI" -> Parsed(skip_newlines(toks, at + 1), BreakNode)
         [] type = "TERUSKAN" -> Parsed(skip_newlines(toks, at + 1), ContinueNode)
         [] type = "LULUS" -> Parsed(skip_newlines(toks, at + 1), PassNode)
         [] type \in OtherStatements -> UnmodelledAt(at)
         [] OTHER -> parse_expression_statement(toks, at)

parse_statement(toks, at) == statement_at(toks, skip_newlines(toks, at))

RECURSIVE program_loop(_, _, _)
\* The statement loop of KilatParser.parse.
program_loop(toks, at, statements) ==
    IF current_token(toks, at).type = "EOF" THEN Parsed(at, ProgramNode(statements))
    ELSE Only({ IF stmt.error # "" THEN stmt
                ELSE program_loop(toks, skip_newlines(toks, stmt.pos),
                                  Append(statements, stmt.node)) :
                stmt \in {parse_statement(toks, at)} })

\* KilatParser.parse.
parse(toks) == program_loop(toks, skip_newlines(toks, 0), <<>>)

(***************************************************************************)
(*            ENVIRONMENTS (kilat_interpreter.py, class Environment)       *)
(* Environments live in a heap, a sequence; an environment is referred to  *)
(* by its index, and parent = 0 is "no parent".  Both engines use this     *)
(* class.                                                                  *)
(***************************************************************************)
Environment(parent) ==
    [parent |-> parent, variables |-> <<>>, globals |-> {}]

\* Environment.define.
define(envs, e, name, value) ==
    [envs EXCEPT ![e].variables = (name :> value) @@ @]

\* Environment._has.
RECURSIVE env_has(_, _, _)
env_has(envs, e, name) ==
    IF name \in DOMAIN envs[e].variables THEN TRUE
    ELSE IF envs[e].parent # 0 THEN env_has(envs, envs[e].parent, name)
    ELSE FALSE

\* Environment.get; the caller tests env_has first to raise the error.
RECURSIVE env_get(_, _, _)
env_get(envs, e, name) ==
    IF name \in DOMAIN envs[e].variables THEN envs[e].variables[name]
    ELSE env_get(envs, envs[e].parent, name)

\* The root of the parent chain: `while env.parent: env = env.parent`.
RECURSIVE env_root(_, _)
env_root(envs, e) ==
    IF envs[e].parent # 0 THEN env_root(envs, envs[e].parent) ELSE e

\* A set that always bound the name in the scope it was called on.
env_set_Current(envs, e, name, value) == define(envs, e, name, value)

\* Environment.set.
RECURSIVE env_set(_, _, _, _)
env_set(envs, e, name, value) ==
    IF name \in envs[e].globals THEN define(envs, env_root(envs, e), name, value)
    ELSE IF name \in DOMAIN envs[e].variables THEN define(envs, e, name, value)
    ELSE IF envs[e].parent # 0 /\ env_has(envs, envs[e].parent, name)
         THEN env_set(envs, envs[e].parent, name, value)
    ELSE define(envs, e, name, value)

\* Environment.declare_global.
declare_global(envs, e, name) ==
    [envs EXCEPT ![e].globals = @ \cup {name}]

\* The builtins both engines seed the global scope with (the ones the
\* modelled programs call).
BuiltinNames == {"cetak", "julat", "panjang", "int"}

\* KilatInterpreter.__init__ / KilatVM.__init__: the global environment.
GlobalEnv ==
    [parent |-> 0,
     variables |-> [n \in BuiltinNames |-> Val("builtin", n)],
     globals |-> {}]

(***************************************************************************)
(*                    HOST OPERATIONS ON VALUES                            *)
(***************************************************************************)
Digits == <<"0", "1", "2", "3", "4", "5", "6", "7", "8", "9">>

\* str(n) for an int.
RECURSIVE IntStr(_)
IntStr(n) ==
    IF n < 0 THEN "-" \o IntStr(-n)
    ELSE IF n < 10 THEN Digits[n + 1]
    ELSE IntStr(n \div 10) \o Digits[(n % 10) + 1]

\* str(value) and repr(value) as print() and list display apply them.
RECURSIVE PyStr(_), PyRepr(_), JoinRepr(_)
PyStr(value) ==
    CASE value.k = "none" -> "None"
      [] value.k = "bool" -> (IF value.v THEN "True" ELSE "False")
      [] value.k = "int" -> IntStr(value.v)
      [] value.k = "float" -> value.v
      [] value.k = "str" -> value.v
      [] value.k = "list" -> "[" \o JoinRepr(value.v) \o "]"
      [] value.k = "tuple" ->
            IF Len(value.v) = 1 THEN "(" \o PyRepr(value.v[1]) \o ",)"
            ELSE "(" \o JoinRepr(value.v) \o ")"
      [] value.k \in {"function", "vmfunction"} -> "<fungsi " \o value.v.name \o ">"
      [] OTHER -> "<" \o value.k \o ">"

PyRepr(value) ==
    IF value.k = "str" THEN "'" \o value.v \o "'" ELSE PyStr(value)

JoinRepr(items) ==
    IF items = <<>> THEN ""
    ELSE IF Len(items) = 1 THEN PyRepr(items[1])
    ELSE PyRepr(items[1]) \o ", " \o JoinRepr(Tail(items))

\* ' '.join(str(a) for a in args): the line cetak writes.
RECURSIVE JoinStr(_)
JoinStr(args) ==
    IF args = <<>> THEN ""
    ELSE IF Len(args) = 1 THEN PyStr(args[1])
    ELSE PyStr(args[1]) \o " " \o JoinStr(Tail(args))

\* An exception object of the host: class name and payload.
Exc(class, payload) == Val(class, payload)

\* Python's a % b and a ** b on ints (b >= 0 for **).
PyMod(a, b) == IF b > 0 THEN a % b ELSE -((-a) % (-b))

RECURSIVE PyPow(_, _)
PyPow(a, b) == IF b = 0 THEN 1 ELSE a * PyPow(a, b - 1)

IsNum(value) == value.k \in {"int", "bool"}

NumOf(value) == IF value.k = "bool" THEN (IF value.v THEN 1 ELSE 0) ELSE value.v

\* Python's ==: numbers compare by value, other values structurally.
PyEq(l, r) ==
    IF IsNum(l) /\ IsNum(r) THEN NumOf(l) = NumOf(r)
    ELSE l.k = r.k /\ l.v = r.v

\* The host's binary operator on two values: the result value, or the
\* exception the host raises (TypeError, ZeroDivisionError).
HostBinary(op, l, r) ==
    IF op = "==" THEN BoolV(PyEq(l, r))
    ELSE IF op = "!=" THEN BoolV(~PyEq(l, r))
    ELSE IF IsNum(l) /\ IsNum(r) THEN
        LET a == NumOf(l)
            b == NumOf(r)
        IN CASE op = "+" -> IntV(a + b)
             [] op = "-" -> IntV(a - b)
             [] op = "*" -> IntV(a * b)
             [] op = "%" -> IF b = 0 THEN Exc("ZeroDivisionError", "modulo by zero")
                            ELSE IntV(PyMod(a, b))
             [] op = "//" -> IF b = 0 THEN Exc("ZeroDivisionError", "division by zero")
                             ELSE IF b > 0 THEN IntV(a \div b)
                             ELSE IntV((-a) \div (-b))
             [] op = "/" -> IF b = 0 THEN Exc("ZeroDivisionError", "division by zero")
                            ELSE FloatV(IntStr(a) \o "/" \o IntStr(b))
             [] op = "**" -> IF b >= 0 THEN IntV(PyPow(a, b))
                             ELSE FloatV(IntStr(a) \o "**" \o IntStr(b))
             [] op = "<" -> BoolV(a < b)
             [] op = ">" -> BoolV(a > b)
             [] op = "<=" -> BoolV(a <= b)
             [] op = ">=" -> BoolV(a >= b)
             [] OTHER -> Exc("TypeError", "unsupported operand")
    ELSE IF op = "+" /\ l.k = r.k /\ l.k = "str" THEN StrV(l.v \o r.v)
    ELSE IF op = "+" /\ l.k = r.k /\ l.k \in {"list", "tuple"} THEN Val(l.k, l.v \o r.v)
    ELSE Exc("TypeError", "unsupported operand")

IsHostError(value) == value.k \in {"TypeError", "ZeroDivisionError", "ValueError"}

\* julat(n): list(range(n)).
julat(n) == ListV([i \in 1..(IF n > 0 THEN n ELSE 0) |-> IntV(i - 1)])

(***************************************************************************)
(*            TREE INTERPRETER (kilat_interpreter.py)                      *)
(* The interpreter is a big-step evaluator.  Its state st holds the heap   *)
(* of environments, the lines written to standard output, and a history    *)
(* of what each cuba statement did.  A result is [st, ok, val]: ok with    *)
(* the value, or not ok with the host exception object that propagates     *)
(* (KilatException, KilatRuntimeError, ReturnException, BreakException,    *)
(* ContinueException, TypeError, ...).                                     *)
(***************************************************************************)
Ok(st, val) == [st |-> st, ok |-> TRUE, val |-> val]

Raise(st, exc) == [st |-> st, ok |-> FALSE, val |-> exc]

KilatRuntimeError(message) == Exc("KilatRuntimeError", message)

KilatException(value) == Exc("KilatException", value)

ReturnException(value) == Exc("ReturnException", value)

BreakException == Exc("BreakException", "berhenti")

ContinueException == Exc("ContinueException", "teruskan")

Note(st, event) == [st EXCEPT !.ev = Append(@, event)]

\* Environment(parent=...) allocated in the heap; the new id is Len(envs).
NewEnv(st, parent) == [st EXCEPT !.envs = Append(@, Environment(parent))]

\* The classes an exception object is an instance of, by class name.
Ancestors(class) ==
    {class, "Exception", "BaseException", "object"}
        \cup (IF class = "ZeroDivisionError" THEN {"ArithmeticError"} ELSE {})

\* Names that the host's eval() resolves to an exception class.
HostExceptionClasses ==
    {"Exception", "BaseException", "ArithmeticError", "ZeroDivisionError",
     "TypeError", "ValueError", "KeyError", "IndexError", "KilatRuntimeError",
     "KilatException", "ReturnException", "BreakException", "ContinueException"}

\* Handler matching of a typed clause against a non-Kilat exception:
\* isinstance(exc, eval(exc_type)), falling back to the class-name test.
HostMatch(exc_type, exc) ==
    IF exc_type \in HostExceptionClasses THEN exc_type \in Ancestors(exc.k)
    ELSE exc_type = exc.k

\* One handler clause against the exception (TryNode, `match`).
ClauseMatches(exc_type, exc) ==
    IF exc_type = NoName THEN TRUE
    ELSE IF exc.k = "KilatException" THEN TRUE
    ELSE HostMatch(exc_type, exc)

\* A builtin called with positional arguments.
CallBuiltin(name, args, st) ==
    CASE name = "cetak" -> Ok([st EXCEPT !.out = Append(@, JoinStr(args))], NoneV)
      [] name = "julat" ->
            IF Len(args) = 1 /\ args[1].k = "int" THEN Ok(st, julat(args[1].v))
            ELSE Raise(st, Exc("TypeError", "julat"))
      [] name = "panjang" ->
            IF Len(args) # 1 THEN Raise(st, Exc("TypeError", "panjang"))
            ELSE IF args[1].k \in SizedKinds /\ args[1].k # "str"
                 THEN Ok(st, IntV(Len(args[1].v)))
            ELSE Raise(st, KilatRuntimeError("tidak mempunyai panjang"))
      [] name = "int" ->
            IF Len(args) = 1 /\ args[1].k = "int" THEN Ok(st, args[1])
            ELSE Raise(st, Exc("ValueError", "invalid literal for int()"))
      [] OTHER -> Raise(st, Exc("TypeError", "builtin"))

RECURSIVE eval(_, _, _), execute(_, _, _), exec_block(_, _, _),
          eval_list(_, _, _, _), eval_kwargs(_, _, _, _), eval_binary(_, _, _),
          eval_call(_, _, _), bind_keywords(_, _, _, _, _),
          fill_defaults(_, _, _, _), bind_arguments(_, _, _, _),
          bind_positional(_, _, _, _, _, _),
          KilatFunction_call(_, _, _, _), exec_while(_, _, _),
          exec_for(_, _, _, _, _), eval_listcomp(_, _, _, _, _, _),
          run_handlers(_, _, _, _, _)

\* [self.eval(e, env) for e in nodes]; val is the sequence of values.
eval_list(nodes, env, st, acc) ==
    IF nodes = <<>> THEN Ok(st, acc)
    ELSE Only({ IF r.ok THEN eval_list(Tail(nodes), env, r.st, Append(acc, r.val))
                ELSE r
                : r \in {eval(Head(nodes), env, st)} })

\* {k: self.eval(v, env) for k, v in node.keyword_args.items()}.
eval_kwargs(pairs, env, st, acc) ==
    IF pairs = <<>> THEN Ok(st, acc)
    ELSE Only({ IF r.ok
                THEN eval_kwargs(Tail(pairs), env, r.st,
                                 Append(acc, <<Head(pairs)[1], r.val>>))
                ELSE r
                : r \in {eval(Head(pairs)[2], env, st)} })

\* KilatInterpreter._eval_binary.
apply_binary(op, l, r) ==
    IF ~r.ok THEN r
    ELSE IF op \in {"/", "//"} /\ IsNum(r.val) /\ NumOf(r.val) = 0
         THEN Raise(r.st, KilatRuntimeError("Pembahagian dengan sifar"))
    ELSE LET h == HostBinary(op, l.val, r.val)
         IN IF IsHostError(h) THEN Raise(r.st, KilatRuntimeError(h.v))
            ELSE Ok(r.st, h)

eval_right(node, env, l) ==
    IF ~l.ok THEN l
    ELSE IF node.operator = "dan"
         THEN (IF ~is_truthy(l.val) THEN l ELSE eval(node.right, env, l.st))
    ELSE IF node.operator = "atau_logik"
         THEN (IF is_truthy(l.val) THEN l ELSE eval(node.right, env, l.st))
    ELSE apply_binary(node.operator, l, eval(node.right, env, l.st))

\* A `dan` / `atau_logik` that evaluates its right operand in every case.
eval_binary_Eager(node, env, st) ==
    Only({ IF ~l.ok \/ node.operator \notin {"dan", "atau_logik"}
           THEN eval_right(node, env, l)
           ELSE Only({ IF ~r.ok THEN r
                       ELSE IF (node.operator = "dan") = is_truthy(l.val) THEN r
                       ELSE Ok(r.st, l.val)
                       : r \in {eval(node.right, env, l.st)} })
           : l \in {eval(node.left, env, st)} })

eval_binary(node, env, st) == eval_right(node, env, eval(node.left, env, st))

\* The keyword-binding loop of KilatFunction.call; acc is extra_kwargs.
bind_keywords(fn, kws, func_env, st, acc) ==
    IF kws = <<>> THEN Ok(st, acc)
    ELSE LET kw_name == Head(kws)[1]
             kw_val == Head(kws)[2]
         IN IF \E i \in 1..Len(fn.parameters) : fn.parameters[i] = kw_name
            THEN bind_keywords(fn, Tail(kws),  func_env,
                     [st EXCEPT !.envs = define(@, func_env, kw_name, kw_val)], acc)
            ELSE IF fn.kw_args # NoName
                 THEN bind_keywords(fn, Tail(kws), func_env, st,
                                    Append(acc, <<StrV(kw_name), kw_val>>))
            ELSE Raise(st, KilatRuntimeError("tidak ada parameter"))

\* The default-filling loop of KilatFunction.call, from parameter i on.
fill_defaults(fn, i, func_env, st) ==
    IF i > Len(fn.parameters) THEN Ok(st, NoneV)
    ELSE IF fn.parameters[i] \in DOMAIN st.envs[func_env].variables
         THEN fill_defaults(fn, i + 1, func_env, st)
    ELSE LET required_count == Len(fn.parameters) - Len(fn.defaults)
             default_index == (i - 1) - required_count
         IN IF default_index < 0 \/ default_index >= Len(fn.defaults)
            THEN Raise(st, KilatRuntimeError("memerlukan argumen"))
            ELSE Only({ IF ~d.ok THEN d
                        ELSE fill_defaults(fn, i + 1, func_env,
                                [d.st EXCEPT !.envs =
                                    define(@, func_env, fn.parameters[i], d.val)])
                        : d \in {eval(fn.defaults[default_index + 1], fn.closure, st)} })

\* The positional-binding loop of KilatFunction.call.
bind_positional(fn, arguments, i, bound_count, func_env, st) ==
    IF i > bound_count THEN st
    ELSE bind_positional(fn, arguments, i + 1, bound_count, func_env,
            [st EXCEPT !.envs = define(@, func_env, fn.parameters[i], arguments[i])])

\* KilatFunction.call up to the body: the new scope with its bindings.
\* val is the id of func_env.
bind_rest(fn, func_env, k) ==
    IF ~k.ok THEN k
    ELSE Only({ IF ~f.ok THEN f ELSE Ok(f.st, func_env)
                : f \in {fill_defaults(fn, 1, func_env,
                            IF fn.kw_args # NoName
                            THEN [k.st EXCEPT !.envs =
                                     define(@, func_env, fn.kw_args, DictV(k.val))]
                            ELSE k.st)} })

\* A call that drops excess positional arguments instead of refusing them.
bind_arguments_NoArity(fn, arguments, keyword_args, st) ==
    LET func_env == Len(st.envs) + 1
        bound_count == IF Len(arguments) < Len(fn.parameters)
                       THEN Len(arguments) ELSE Len(fn.parameters)
        st1 == bind_positional(fn, arguments, 1, bound_count, func_env,
                               NewEnv(st, fn.closure))
        st2 == IF fn.var_args # NoName
               THEN [st1 EXCEPT !.envs = define(@, func_env, fn.var_args,
                        TupleV(SubSeq(arguments, Len(fn.parameters) + 1,
                                      Len(arguments))))]
               ELSE st1
    IN bind_rest(fn, func_env, bind_keywords(fn, keyword_args, func_env, st2, <<>>))

bind_arguments(fn, arguments, keyword_args, st) ==
    LET func_env == Len(st.envs) + 1
        bound_count == IF Len(arguments) < Len(fn.parameters)
                       THEN Len(arguments) ELSE Len(fn.parameters)
        st1 == bind_positional(fn, arguments, 1, bound_count, func_env,
                               NewEnv(st, fn.closure))
        st2 == IF fn.var_args # NoName
               THEN [st1 EXCEPT !.envs = define(@, func_env, fn.var_args,
                        TupleV(SubSeq(arguments, Len(fn.parameters) + 1,
                                      Len(arguments))))]
               ELSE st1
    IN IF fn.var_args = NoName /\ Len(arguments) > Len(fn.parameters)
       THEN Raise(st1, KilatRuntimeError("menerima paling banyak"))
       ELSE bind_rest(fn, func_env,
                      bind_keywords(fn, keyword_args, func_env, st2, <<>>))

\* KilatFunction.call.
call_body(fn, b) ==
    IF ~b.ok THEN b
    ELSE Only({ IF r.ok THEN Ok(r.st, NoneV)
                ELSE IF r.val.k = "ReturnException" THEN Ok(r.st, r.val.v)
                ELSE r
                : r \in {exec_block(fn.body, b.val, b.st)} })

KilatFunction_call(fn, arguments, keyword_args, st) ==
    call_body(fn, bind_arguments(fn, arguments, keyword_args, st))

\* KilatInterpreter._eval_call; node.function is the callee's name.
wrap_type_error(c) ==
    IF ~c.ok /\ c.val.k = "TypeError" THEN Raise(c.st, KilatRuntimeError(c.val.v))
    ELSE c

call_value(func, a, kw) ==
    IF ~kw.ok THEN kw
    ELSE IF func.k = "function" THEN KilatFunction_call(func.v, a.val, kw.val, kw.st)
    ELSE IF func.k = "builtin" THEN wrap_type_error(CallBuiltin(func.v, a.val, kw.st))
    ELSE Raise(kw.st, KilatRuntimeError("Tidak boleh dipanggil"))

call_with(node, env, func, a) ==
    IF ~a.ok THEN a
    ELSE call_value(func, a, eval_kwargs(node.keyword_args, env, a.st, <<>>))

eval_call(node, env, st) ==
    IF ~env_has(st.envs, env, node.function)
    THEN Raise(st, KilatRuntimeError("Fungsi tidak ditakrifkan"))
    ELSE call_with(node, env, env_get(st.envs, env, node.function),
                   eval_list(node.arguments, env, st, <<>>))

\* The ListCompNode loop of eval over the items from index i on.
eval_listcomp(node, items, i, env, st, acc) ==
    IF i > Len(items) THEN Ok(st, ListV(acc))
    ELSE LET st1 == [st EXCEPT !.envs = env_set(@, env, node.variable, items[i])]
         IN Only({ IF ~c.ok THEN c
                   ELSE IF ~is_truthy(c.val)
                        THEN eval_listcomp(node, items, i + 1, env, c.st, acc)
                   ELSE Only({ IF ~x.ok THEN x
                               ELSE eval_listcomp(node, items, i + 1, env, x.st,
                                                  Append(acc, x.val))
                               : x \in {eval(node.expression, env, c.st)} })
                   : c \in {IF node.condition.t = "NoNode" THEN Ok(st1, BoolV(TRUE))
                            ELSE eval(node.condition, env, st1)} })

\* The list or tuple display of the evaluated elements.
collect(kind, r) == IF r.ok THEN Ok(r.st, Val(kind, r.val)) ELSE r

\* eval, UnaryOpNode: `not operand`, `-operand`, `+operand` of the host.
eval_unary(operator, o) ==
    IF ~o.ok THEN o
    ELSE IF operator = "bukan" THEN Ok(o.st, eval_bukan(o.val))
    ELSE IF ~IsNum(o.val)
         THEN Raise(o.st, Exc("TypeError", "bad operand type for unary"))
    ELSE IF operator = "-" THEN Ok(o.st, IntV(-NumOf(o.val)))
    ELSE Ok(o.st, IntV(NumOf(o.val)))

\* KilatInterpreter.eval.
eval(node, env, st) ==
    CASE node.t \in {"NumberNode", "StringNode", "BooleanNode"} -> Ok(st, node.value)
      [] node.t = "NoneNode" -> Ok(st, NoneV)
      [] node.t = "IdentifierNode" ->
            IF env_has(st.envs, env, node.name)
            THEN Ok(st, env_get(st.envs, env, node.name))
            ELSE Raise(st, KilatRuntimeError("Pembolehubah tidak ditakrifkan"))
      [] node.t \in {"TupleNode", "ListNode"} ->
            collect(IF node.t = "TupleNode" THEN "tuple" ELSE "list",
                    eval_list(node.elements, env, st, <<>>))
      [] node.t = "ListCompNode" ->
            Only({ IF ~it.ok THEN it
                   ELSE IF it.val.k \in {"list", "tuple"}
                        THEN eval_listcomp(node, it.val.v, 1, env, it.st, <<>>)
                   ELSE Raise(it.st, Exc("TypeError", "object is not iterable"))
                   : it \in {eval(node.iterable, env, st)} })
      [] node.t = "BinaryOpNode" -> eval_binary(node, env, st)
      [] node.t = "UnaryOpNode" -> eval_unary(node.operator, eval(node.operand, env, st))
      [] node.t = "FunctionCallNode" -> eval_call(node, env, st)
      [] OTHER -> Raise(st, KilatRuntimeError("Tidak dapat menilai nod"))

\* KilatInterpreter._exec_block.
exec_block(stmts, env, st) ==
    IF stmts = <<>> THEN Ok(st, NoneV)
    ELSE Only({ IF r.ok THEN exec_block(Tail(stmts), env, r.st) ELSE r
                : r \in {execute(Head(stmts), env, st)} })

\* execute, WhileNode.
exec_while(node, env, st) ==
    Only({ IF ~c.ok THEN c
           ELSE IF ~is_truthy(c.val) THEN Ok(c.st, NoneV)
           ELSE Only({ IF b.ok \/ b.val.k = "ContinueException"
                       THEN exec_while(node, env, b.st)
                       ELSE IF b.val.k = "BreakException" THEN Ok(b.st, NoneV)
                       ELSE b
                       : b \in {exec_block(node.body, env, c.st)} })
           : c \in {eval(node.condition, env, st)} })

\* env.set for each of the loop variables of a for with unpacking.
RECURSIVE set_each(_, _, _, _)
set_each(envs, env, names, values) ==
    IF names = <<>> THEN envs
    ELSE set_each(env_set(envs, env, Head(names), Head(values)), env,
                  Tail(names), Tail(values))

\* execute, ForNode: the loop over the items from index i on.
exec_for(node, items, i, env, st) ==
    IF i > Len(items) THEN Ok(st, NoneV)
    ELSE LET item == items[i]
             unpack == node.variables # <<>>
         IN IF unpack /\ item.k \notin {"list", "tuple"}
            THEN Raise(st, KilatRuntimeError("object is not iterable"))
            ELSE IF unpack /\ Len(item.v) # Len(node.variables)
                 THEN Raise(st, KilatRuntimeError("Dijangka nilai"))
            ELSE LET st1 == [st EXCEPT !.envs =
                                IF unpack THEN set_each(@, env, node.variables, item.v)
                                ELSE env_set(@, env, node.variable, item)]
                 IN Only({ IF b.ok \/ b.val.k = "ContinueException"
                           THEN exec_for(node, items, i + 1, env, b.st)
                           ELSE IF b.val.k = "BreakException" THEN Ok(b.st, NoneV)
                           ELSE b
                           : b \in {exec_block(node.body, env, st1)} })

Ev(e, line, i) == [e |-> e, line |-> line, i |-> i]

\* A cuba statement is entered; i tells whether it has an akhirnya body.
entered(node) == Ev("try", node.line, IF node.finally_body # <<>> THEN 1 ELSE 0)

\* execute, TryNode: the handler loop of the except block, from clause i.
run_handlers(node, i, env, st, exc) ==
    IF i > Len(node.except_clauses) THEN Raise(st, exc)
    ELSE LET exc_type == node.except_clauses[i][1]
             exc_alias == node.except_clauses[i][2]
             exc_body == node.except_clauses[i][3]
             st1 == Note(st, Ev("test", node.line, i))
         IN IF ClauseMatches(exc_type, exc)
            THEN LET st2 == NewEnv(st1, env)
                     exc_env == Len(st2.envs)
                     val == IF exc.k = "KilatException" THEN exc.v ELSE exc
                     st3 == IF exc_alias # NoName
                            THEN [st2 EXCEPT !.envs = define(@, exc_env, exc_alias, val)]
                            ELSE st2
                 IN exec_block(exc_body, exc_env, Note(st3, Ev("handler", node.line, i)))
            ELSE run_handlers(node, i + 1, env, st1, exc)

\* An assignment that walked to the scope that binds the target.
assign_Nearest(target, env, r) ==
    IF ~r.ok THEN r
    ELSE Ok([r.st EXCEPT !.envs = env_set(@, env, target, r.val)], NoneV)

\* execute, AssignmentNode, once the value is evaluated.
assign(target, env, r) ==
    IF ~r.ok THEN r
    ELSE IF target \in r.st.envs[env].globals
         THEN Ok([r.st EXCEPT !.envs = define(@, env_root(@, env), target, r.val)], NoneV)
    ELSE Ok([r.st EXCEPT !.envs = define(@, env, target, r.val)], NoneV)

\* execute, AugmentedAssignmentNode: _apply_op and env.set, once current
\* and the operand are known; h is what the host operator gave.
aug_store(target, env, st, h) ==
    IF IsHostError(h) THEN Raise(st, KilatRuntimeError(h.v))
    ELSE Ok([st EXCEPT !.envs = env_set(@, env, target, h)], NoneV)

aug_apply(node, env, current, r) ==
    IF ~r.ok THEN r
    ELSE aug_store(node.target, env, r.st, HostBinary(node.operator, current, r.val))

\* execute, AugmentedAssignmentNode: env.get(target) comes first.
aug_assign(node, env, st) ==
    IF ~env_has(st.envs, env, node.target)
    THEN Raise(st, KilatRuntimeError("Pembolehubah tidak ditakrifkan"))
    ELSE aug_apply(node, env, env_get(st.envs, env, node.target),
                   eval(node.value, env, st))

\* execute, GlobalNode: env.declare_global(name) for each name.
RECURSIVE declare_each(_, _, _)
declare_each(names, env, envs) ==
    IF names = <<>> THEN envs
    ELSE declare_each(Tail(names), env, declare_global(envs, env, Head(names)))

\* `raise ReturnException(value)` and `raise KilatException(exc_val)`.
raise_value(class, r) == IF r.ok THEN Raise(r.st, Exc(class, r.val)) ELSE r

\* execute, TryNode: the except block, entered when the body raised.
try_except(node, env, b) ==
    IF b.ok THEN b ELSE run_handlers(node, 1, env, b.st, b.val)

\* execute, TryNode: the finally block; h is how body and handlers ended.
\* An exception of the finally body replaces the pending one.
finish_try(node, h, f) ==
    IF ~f.ok THEN f
    ELSE IF h.ok THEN Ok(Note(f.st, Ev("leave", node.line, 0)), NoneV)
    ELSE Raise(Note(f.st, Ev("leave", node.line, 0)), h.val)

\* A cuba statement whose akhirnya body runs only when nothing is pending.
try_finally_OnSuccess(node, env, h) ==
    finish_try(node, h,
        IF node.finally_body # <<>> /\ h.ok
        THEN exec_block(node.finally_body, env, Note(h.st, Ev("finally", node.line, 0)))
        ELSE Ok(h.st, NoneV))

try_finally(node, env, h) ==
    finish_try(node, h,
        IF node.finally_body # <<>>
        THEN exec_block(node.finally_body, env, Note(h.st, Ev("finally", node.line, 0)))
        ELSE Ok(h.st, NoneV))

\* A function value that keeps the module scope whatever scope defines it.
KilatFunction_GlobalClosure(node, closure) ==
    Val("function",
        [name |-> node.name, parameters |-> node.parameters,
         defaults |-> node.defaults, body |-> node.body, closure |-> 1,
         var_args |-> node.var_args, kw_args |-> node.kw_args])

\* KilatFunction(name, parameters, defaults, body, closure=env, ...): the
\* closure is the environment itself, kept by its place in the heap.
KilatFunction(node, closure) ==
    Val("function",
        [name |-> node.name, parameters |-> node.parameters,
         defaults |-> node.defaults, body |-> node.body, closure |-> closure,
         var_args |-> node.var_args, kw_args |-> node.kw_args])

\* class KilatClass.  base_class is the base: the class itself where classes
\* are values of a program, its place in the table where a table of classes
\* is given; None is NoneV, or place 0.
KilatClass(name, base_class, methods) ==
    Val("class", [name |-> name, base_class |-> base_class, methods |-> methods])

\* `decorator(x)` written in Python: only a host callable can be called.
host_call(func, args, st) ==
    IF func.k = "builtin" THEN CallBuiltin(func.v, args, st)
    ELSE Raise(st, Exc("TypeError", "object is not callable"))

\* execute, FunctionDefNode: the loop over reversed(node.decorators); i is
\* the place of the next decorator applied and r.val the function so far.
RECURSIVE decorate_function(_, _, _, _)
decorate_function(node, i, env, r) ==
    IF ~r.ok \/ i = 0 THEN r
    ELSE Only({ IF ~d.ok THEN d
                ELSE IF d.val.k = "function"
                     THEN decorate_function(node, i - 1, env,
                              KilatFunction_call(d.val.v, <<r.val>>, <<>>, d.st))
                ELSE IF d.val.k = "builtin"
                     THEN decorate_function(node, i - 1, env,
                                            host_call(d.val, <<r.val>>, d.st))
                ELSE Raise(d.st, KilatRuntimeError("Penghias bukan fungsi boleh dipanggil"))
                : d \in {eval(node.decorators[i], env, r.st)} })

\* execute, ClassDefNode: the loop over node.body; r.val is `methods`.
RECURSIVE class_body(_, _, _, _)
class_body(stmts, env, class_env, r) ==
    IF ~r.ok \/ stmts = <<>> THEN r
    ELSE IF Head(stmts).t = "FunctionDefNode"
         THEN class_body(Tail(stmts), env, class_env,
                  Ok(r.st, (Head(stmts).name :> KilatFunction(Head(stmts), class_env))
                           @@ r.val))
    ELSE IF Head(stmts).t = "AssignmentNode"
         THEN Only({ IF ~v.ok THEN v
                     ELSE class_body(Tail(stmts), env, class_env,
                              Ok([v.st EXCEPT !.envs = define(@, class_env,
                                                   Head(stmts).target, v.val)],
                                 r.val))
                     : v \in {eval(Head(stmts).value, env, r.st)} })
    ELSE class_body(Tail(stmts), env, class_env, r)

\* execute, ClassDefNode: the base is looked up and the class is made.
class_base(node, env, r) ==
    IF ~r.ok THEN r
    ELSE IF node.base_class = NoName THEN Ok(r.st, KilatClass(node.name, NoneV, r.val))
    ELSE IF ~env_has(r.st.envs, env, node.base_class)
         THEN Raise(r.st, KilatRuntimeError("Pembolehubah tidak ditakrifkan"))
    ELSE Ok(r.st, KilatClass(node.name,
                             IF env_get(r.st.envs, env, node.base_class).k = "class"
                             THEN env_get(r.st.envs, env, node.base_class) ELSE NoneV,
                             r.val))

\* execute, ClassDefNode: the loop over reversed(node.decorators),
\* `klass = decorator(klass)`.
RECURSIVE decorate_class(_, _, _, _)
decorate_class(node, i, env, r) ==
    IF ~r.ok \/ i = 0 THEN r
    ELSE Only({ IF ~d.ok THEN d
                ELSE decorate_class(node, i - 1, env, host_call(d.val, <<r.val>>, d.st))
                : d \in {eval(node.decorators[i], env, r.st)} })

\* env.define(node.name, <the decorated definition>).
\* importlib.import_module and getattr for the host modules a program
\* imports: math, with its attributes pi and e.
HostModules == {"math"}

ModuleAttributes ==
    [pi |-> FloatV("3.141592653589793"), e |-> FloatV("2.718281828459045")]

\* execute, FromImportNode: every name is defined in the current scope; a
\* module or an attribute that does not exist is a runtime error.
RECURSIVE import_each(_, _, _, _)
import_each(names, aliases, env, st) ==
    IF names = <<>> THEN Ok(st, NoneV)
    ELSE IF Head(names) \notin DOMAIN ModuleAttributes
    THEN Raise(st, KilatRuntimeError("Import gagal"))
    ELSE import_each(Tail(names), Tail(aliases), env,
                     [st EXCEPT !.envs =
                         define(@, env,
                                IF Head(aliases) # NoName THEN Head(aliases)
                                ELSE Head(names),
                                ModuleAttributes[Head(names)])])

define_result(name, env, r) ==
    IF ~r.ok THEN r
    ELSE Ok([r.st EXCEPT !.envs = define(@, env, name, r.val)], NoneV)

\* KilatInterpreter.execute.
execute(node, env, st) ==
    CASE node.t = "AssignmentNode" -> assign(node.target, env, eval(node.value, env, st))
      [] node.t = "AugmentedAssignmentNode" -> aug_assign(node, env, st)
      [] node.t = "GlobalNode" ->
            Ok([st EXCEPT !.envs = declare_each(node.names, env, @)], NoneV)
      [] node.t = "IfNode" ->
            Only({ IF ~c.ok THEN c
                   ELSE IF is_truthy(c.val) THEN exec_block(node.then_body, env, c.st)
                   ELSE exec_block(node.else_body, env, c.st)
                   : c \in {eval(node.condition, env, st)} })
      [] node.t = "WhileNode" -> exec_while(node, env, st)
      [] node.t = "ForNode" ->
            Only({ IF ~it.ok THEN it
                   ELSE IF it.val.k \notin {"list", "tuple"}
                        THEN Raise(it.st, KilatRuntimeError("Objek tidak boleh diulang"))
                   ELSE exec_for(node, it.val.v, 1, env, it.st)
                   : it \in {eval(node.iterable, env, st)} })
      [] node.t = "BreakNode" -> Raise(st, BreakException)
      [] node.t = "ContinueNode" -> Raise(st, ContinueException)
      [] node.t = "ReturnNode" ->
            IF node.value.t = "NoNode" THEN Raise(st, ReturnException(NoneV))
            ELSE raise_value("ReturnException", eval(node.value, env, st))
      [] node.t = "FunctionDefNode" ->
            define_result(node.name, env,
                decorate_function(node, Len(node.decorators), env,
                                  Ok(st, KilatFunction(node, env))))
      [] node.t = "ClassDefNode" ->
            define_result(node.name, env,
                decorate_class(node, Len(node.decorators), env,
                    class_base(node, env,
                        class_body(node.body, env, Len(st.envs) + 1,
                                   Ok(NewEnv(st, env), <<>>)))))
      [] node.t = "TryNode" ->
            try_finally(node, env,
                try_except(node, env,
                    exec_block(node.try_body, env, Note(st, entered(node)))))
      [] node.t = "RaiseNode" -> raise_value("KilatException", eval(node.exception, env, st))
      [] node.t = "FromImportNode" ->
            IF node.module \notin HostModules
            THEN Raise(st, KilatRuntimeError("Import gagal"))
            ELSE import_each(node.names, node.aliases, env, st)
      [] node.t = "PassNode" -> Ok(st, NoneV)
      [] OTHER -> eval(node, env, st)

\* The state both engines start from: the global scope with the builtins.
StartState == [envs |-> <<GlobalEnv>>, out |-> <<>>, ev |-> <<>>]

\* How a run ends: the process exit status and the kind of failure.
Outcome(r) ==
    [out |-> r.st.out, ev |-> r.st.ev,
     status |-> IF r.ok THEN "exit0" ELSE r.val.k]

\* KilatInterpreter.interpret, as kilat.py --native runs it.
interpret(program) == Outcome(exec_block(program.statements, 1, StartState))

(***************************************************************************)
(*               CODE OBJECTS (kilat_bytecode.py, CodeObject)              *)
(* Instruction indexes are 0-based as in the code; instructions[i] of the  *)
(* code is instructions[i + 1] here.  A constant is a runtime value; a     *)
(* nested CodeObject is the constant Val("code", <code object>).           *)
(***************************************************************************)
Instruction(opcode, arg, line) == [opcode |-> opcode, arg |-> arg, line |-> line]

CodeObject(name) ==
    [name |-> name, constants |-> <<>>, names |-> <<>>, instructions |-> <<>>,
     param_count |-> 0, param_names |-> <<>>, var_args |-> NoName,
     kw_args |-> NoName]

\* getattr(node, 'line', 0).
LineOf(node) == IF "line" \in DOMAIN node THEN node.line ELSE 0

\* The node as the parser builds it on source line n.
AtLine(node, n) == ("line" :> n) @@ node

\* `type(c) is type(value) and c == value` of add_constant.
SameConstant(c, value) ==
    /\ c.k = value.k
    /\ \/ c.v = value.v
       \/ c.k = "float" /\ c.v \in FloatZeros /\ value.v \in FloatZeros
    /\ ~(c.k = "float" /\ c.v = "nan")

\* CodeObject.add_constant: the index the value gets.
constant_index(code, value) ==
    IF value.k \notin {"code", "list", "dict"}
       /\ \E i \in 1..Len(code.constants) : SameConstant(code.constants[i], value)
    THEN (CHOOSE i \in 1..Len(code.constants) :
             /\ SameConstant(code.constants[i], value)
             /\ \A j \in 1..(i - 1) : ~SameConstant(code.constants[j], value)) - 1
    ELSE Len(code.constants)

\* An add_constant that never looks for an existing entry.
add_constant_Always(code, value) == [code EXCEPT !.constants = Append(@, value)]

\* CodeObject.add_constant: the code afterwards.
add_constant(code, value) ==
    IF constant_index(code, value) = Len(code.constants)
    THEN [code EXCEPT !.constants = Append(@, value)]
    ELSE code

\* CodeObject.add_name: the index the name gets.
name_index(code, name) ==
    IF \E i \in 1..Len(code.names) : code.names[i] = name
    THEN (CHOOSE i \in 1..Len(code.names) : code.names[i] = name) - 1
    ELSE Len(code.names)

\* CodeObject.add_name: the code afterwards.
add_name(code, name) ==
    IF name_index(code, name) = Len(code.names)
    THEN [code EXCEPT !.names = Append(@, name)]
    ELSE code

(***************************************************************************)
(*          SERIALISATION (kilat_bytecode.py, the .klc format)             *)
(*                                                                         *)
(* A buffer is a sequence of bytes 0..255.  struct.pack raises             *)
(* struct.error when a number does not fit its format; the buffer record   *)
(* carries that error.  An integer outside the 32-bit range is the value   *)
(* Val("bigint", bytes), the little-endian bytes of a non-negative number  *)
(* without leading zero bytes.                                             *)
(***************************************************************************)

\* class OpCode(IntEnum).
OpCode ==
    [NOP |-> 0, POP_TOP |-> 1, DUP_TOP |-> 2, ROT_TWO |-> 3, LOAD_CONST |-> 10,
     LOAD_NAME |-> 20, STORE_NAME |-> 21, LOAD_GLOBAL |-> 22, STORE_GLOBAL |-> 23,
     DELETE_NAME |-> 24, STORE_NAME_DEFINE |-> 25, LOAD_ATTR |-> 30,
     STORE_ATTR |-> 31, LOAD_INDEX |-> 35, STORE_INDEX |-> 36, DELETE_INDEX |-> 37,
     BINARY_ADD |-> 40, BINARY_SUB |-> 41, BINARY_MUL |-> 42, BINARY_DIV |-> 43,
     BINARY_FLOOR_DIV |-> 44, BINARY_MOD |-> 45, BINARY_POW |-> 46,
     AUG_ADD |-> 50, AUG_SUB |-> 51, AUG_MUL |-> 52, AUG_DIV |-> 53,
     AUG_FLOOR_DIV |-> 54, AUG_POW |-> 55, AUG_MOD |-> 56,
     UNARY_NEG |-> 60, UNARY_POS |-> 61, UNARY_NOT |-> 62,
     COMPARE_EQ |-> 70, COMPARE_NE |-> 71, COMPARE_LT |-> 72, COMPARE_GT |-> 73,
     COMPARE_LE |-> 74, COMPARE_GE |-> 75, COMPARE_IN |-> 76, COMPARE_IS |-> 77,
     JUMP_ABSOLUTE |-> 80, JUMP_IF_FALSE |-> 81, JUMP_IF_TRUE |-> 82,
     JUMP_IF_FALSE_OR_POP |-> 83, JUMP_IF_TRUE_OR_POP |-> 84,
     GET_ITER |-> 90, FOR_ITER |-> 91, BREAK_LOOP |-> 92, CONTINUE_LOOP |-> 93,
     MAKE_FUNCTION |-> 100, CALL_FUNCTION |-> 101, CALL_FUNCTION_KW |-> 102,
     RETURN_VALUE |-> 103, MAKE_CLASS |-> 110, BUILD_LIST |-> 120,
     BUILD_DICT |-> 121, BUILD_FSTRING |-> 125, BUILD_TUPLE |-> 126,
     BUILD_SLICE |-> 127, SETUP_TRY |-> 130, POP_TRY |-> 131, RAISE |-> 132,
     END_FINALLY |-> 133, MATCH_EXCEPTION |-> 134, IMPORT_MODULE |-> 140,
     IMPORT_FROM |-> 141, DECLARE_GLOBAL |-> 150, UNPACK_SEQUENCE |-> 160]

\* The code points of the characters that occur in names and strings.
Printable ==
    " !#$%&'()*+,-./0123456789:;<=>?@ABCDEFGHIJKLMNOPQRSTUVWXYZ[]^_abcdefghijklmnopqrstuvwxyz{|}~"

CodePoints ==
    <<32, 33, 35, 36, 37, 38, 39, 40, 41, 42, 43, 44, 45, 46, 47>>
    \o [i \in 1..17 |-> 47 + i] \o [i \in 1..27 |-> 64 + i]
    \o <<93, 94, 95>> \o [i \in 1..30 |-> 96 + i]

\* str.encode('utf-8') on the characters of Printable.
encode_utf8(s) ==
    [i \in 1..Len(s) |->
        CodePoints[CHOOSE k \in 1..Len(Printable) : SubSeq(Printable, k, k) = SubSeq(s, i, i)]]

\* bytes.decode('utf-8').
RECURSIVE decode_utf8(_)
decode_utf8(bytes) ==
    IF bytes = <<>> THEN ""
    ELSE LET k == CHOOSE j \in 1..Len(CodePoints) : CodePoints[j] = Head(bytes)
         IN SubSeq(Printable, k, k) \o decode_utf8(Tail(bytes))

\* Little-endian bytes of n modulo 256^width (two's complement).
RECURSIVE le_bytes(_, _)
le_bytes(n, width) ==
    IF width = 0 THEN <<>> ELSE <<n % 256>> \o le_bytes(n \div 256, width - 1)

\* The unsigned number a little-endian byte string holds.
RECURSIVE le_value(_)
le_value(bytes) ==
    IF bytes = <<>> THEN 0 ELSE Head(bytes) + 256 * le_value(Tail(bytes))

Zeros(n) == [i \in 1..n |-> 0]

\* struct.pack('<q', value): the 8 bytes, defined when fits_q(value).
fits_q(value) ==
    value.k = "int"
    \/ Len(value.v) < 8 \/ (Len(value.v) = 8 /\ value.v[8] < 128)

pack_q(value) ==
    IF value.k = "int" THEN le_bytes(value.v, 8)
    ELSE value.v \o Zeros(8 - Len(value.v))

\* struct.unpack('<q', bytes): an int of the host, of any magnitude.
RECURSIVE trim_zeros(_)
trim_zeros(bytes) ==
    IF bytes # <<>> /\ Last(bytes) = 0 THEN trim_zeros(Front(bytes)) ELSE bytes

unpack_q(bytes) ==
    LET low == le_value(SubSeq(bytes, 1, 3)) + 16777216 * (bytes[4] % 128)
    IN IF SubSeq(bytes, 5, 8) = Zeros(4) /\ bytes[4] < 128 THEN IntV(low)
       ELSE IF SubSeq(bytes, 5, 8) = <<255, 255, 255, 255>> /\ bytes[4] >= 128
            THEN IntV(low - 2147483647 - 1)
       ELSE Val("bigint", trim_zeros(bytes))

\* struct.pack('<d', value) for the float literals of the model.
pack_d(value) ==
    CASE value.v = "0.0" -> Zeros(8)
      [] value.v = "1.5" -> <<0, 0, 0, 0, 0, 0, 248, 63>>
      [] value.v = "-0.0" -> <<0, 0, 0, 0, 0, 0, 0, 128>>

unpack_d(bytes) ==
    FloatV(CHOOSE lit \in {"0.0", "1.5", "-0.0"} : pack_d(FloatV(lit)) = bytes)

NewBuf == [buf |-> <<>>, error |-> ""]

\* buf.extend(struct.pack(...)): struct.error when the number does not fit.
extend(B, fits, bytes) ==
    IF B.error # "" THEN B
    ELSE IF ~fits THEN [B EXCEPT !.error = "struct.error"]
    ELSE [B EXCEPT !.buf = @ \o bytes]

serialize_string(B, s) ==
    extend(extend(B, TRUE, le_bytes(Len(encode_utf8(s)), 4)), TRUE, encode_utf8(s))

RECURSIVE serialize_value(_, _), serialize_values(_, _), serialize_code_obj(_, _)
RECURSIVE serialize_strings(_, _)
serialize_strings(B, strings) ==
    IF strings = <<>> THEN B
    ELSE serialize_strings(serialize_string(B, Head(strings)), Tail(strings))

serialize_values(B, values) ==
    IF values = <<>> \/ B.error # "" THEN B
    ELSE serialize_values(serialize_value(B, Head(values)), Tail(values))

\* _serialize_value
serialize_value(B, value) ==
    CASE value.k = "none" -> extend(B, TRUE, <<0>>)
      [] value.k = "bool" -> extend(B, TRUE, <<IF value.v THEN 4 ELSE 5>>)
      [] value.k \in {"int", "bigint"} ->
            extend(extend(B, TRUE, <<1>>), fits_q(value), pack_q(value))
      [] value.k = "float" -> extend(extend(B, TRUE, <<2>>), TRUE, pack_d(value))
      [] value.k = "str" -> serialize_string(extend(B, TRUE, <<3>>), value.v)
      [] value.k = "code" -> serialize_code_obj(extend(B, TRUE, <<6>>), value.v)
      [] value.k = "list" ->
            serialize_values(extend(extend(B, TRUE, <<7>>), TRUE,
                                    le_bytes(Len(value.v), 4)), value.v)
      [] OTHER -> serialize_string(extend(B, TRUE, <<3>>), PyRepr(value))

RECURSIVE serialize_instructions(_, _)
serialize_instructions(B, instructions) ==
    IF instructions = <<>> \/ B.error # "" THEN B
    ELSE LET instr == Head(instructions)
             fits == instr.arg >= -32768 /\ instr.arg <= 32767
                     /\ instr.line >= 0 /\ instr.line <= 65535
         IN serialize_instructions(
                extend(B, fits, <<OpCode[instr.opcode]>> \o le_bytes(instr.arg, 2)
                                \o le_bytes(instr.line, 2)),
                Tail(instructions))

\* _serialize_code_obj
serialize_code_obj(B, code) ==
    LET B1 == serialize_string(B, code.name)
        B2 == extend(extend(B1, TRUE, le_bytes(code.param_count, 4)),
                     TRUE, le_bytes(Len(code.param_names), 4))
        B3 == serialize_strings(B2, code.param_names)
        B4 == serialize_string(serialize_string(B3, code.var_args), code.kw_args)
        B5 == serialize_values(extend(B4, TRUE, le_bytes(Len(code.constants), 4)),
                               code.constants)
        B6 == serialize_strings(extend(B5, TRUE, le_bytes(Len(code.names), 4)),
                                code.names)
    IN serialize_instructions(extend(B6, TRUE, le_bytes(Len(code.instructions), 4)),
                              code.instructions)

KLC_MAGIC == <<75, 76, 67, 0>>

KLC_VERSION == <<1, 0>>

\* serialize_code: the bytes, or the struct.error that leaves no file.
serialize_code(code) ==
    serialize_code_obj(extend(extend(NewBuf, TRUE, KLC_MAGIC), TRUE, KLC_VERSION), code)

\* A reader is the data with the mutable offset of the recursive parsing;
\* every read returns the reader and the value read.
Reader(data, offset, error) == [data |-> data, offset |-> offset, error |-> error]

Got(R, val) == [R |-> R, val |-> val]

\* _read_bytes: a slice, shorter than n at the end of the data.
read_bytes(R, n) ==
    LET to == IF R.offset + n <= Len(R.data) THEN R.offset + n ELSE Len(R.data)
    IN Got([R EXCEPT !.offset = @ + n], SubSeq(R.data, R.offset + 1, to))

\* struct.unpack('<I', _read_bytes(data, offset, 4))[0]
read_u32(R) ==
    LET b == read_bytes(R, 4)
    IN IF R.error # "" THEN Got(R, 0)
       ELSE IF Len(b.val) # 4 THEN Got([b.R EXCEPT !.error = "struct.error"], 0)
       ELSE Got(b.R, le_value(b.val))

\* _read_string
read_string(R) ==
    LET n == read_u32(R)
        b == read_bytes(n.R, n.val)
    IN IF n.R.error # "" THEN Got(n.R, "") ELSE Got(b.R, decode_utf8(b.val))

\* OpCode(op): ValueError for a number that is no opcode.
OpCodeNames == DOMAIN OpCode

read_instruction(R) ==
    LET raw == read_bytes(R, 5)
        b == raw.val
        arg == le_value(SubSeq(b, 2, 3))
    IN IF Len(b) # 5 THEN Got([raw.R EXCEPT !.error = "struct.error"], NoNode)
       ELSE IF \A name \in OpCodeNames : OpCode[name] # b[1]
            THEN Got([raw.R EXCEPT !.error = "ValueError"], NoNode)
       ELSE Got(raw.R,
                Instruction(CHOOSE name \in OpCodeNames : OpCode[name] = b[1],
                            IF arg >= 32768 THEN arg - 65536 ELSE arg,
                            le_value(SubSeq(b, 4, 5))))

RECURSIVE read_value(_), read_many(_, _, _), deserialize_code_obj(_)
\* One string, value or instruction at the reader's offset.
read_one(R, kind) ==
    CASE kind = "strings" -> read_string(R)
      [] kind = "values" -> read_value(R)
      [] kind = "instructions" -> read_instruction(R)

\* list.append of the item read; the reader moves past it.
append_read(G, got) == Got(got.R, Append(G.val, got.val))

\* for _ in range(count): the items read so far are G.val.
read_many(G, count, kind) ==
    IF count = 0 \/ G.R.error # "" THEN G
    ELSE read_many(append_read(G, read_one(G.R, kind)), count - 1, kind)

\* A count ('<I') followed by that many strings, values or instructions.
read_counted(R, kind) ==
    LET n == read_u32(R) IN read_many(Got(n.R, <<>>), n.val, kind)

\* The value of the given kind that was read.
as_value(kind, got) == Got(got.R, Val(kind, got.val))

\* _read_value
read_value(R) ==
    IF R.offset >= Len(R.data) THEN Got([R EXCEPT !.error = "IndexError"], NoneV)
    ELSE LET tag == R.data[R.offset + 1]
             R1 == [R EXCEPT !.offset = @ + 1]
             eight == read_bytes(R1, 8)
             short == Got([eight.R EXCEPT !.error = "struct.error"], NoneV)
         IN CASE tag = 0 -> Got(R1, NoneV)
              [] tag = 4 -> Got(R1, BoolV(TRUE))
              [] tag = 5 -> Got(R1, BoolV(FALSE))
              [] tag = 1 -> IF Len(eight.val) # 8 THEN short
                            ELSE Got(eight.R, unpack_q(eight.val))
              [] tag = 2 -> IF Len(eight.val) # 8 THEN short
                            ELSE Got(eight.R, unpack_d(eight.val))
              [] tag = 3 -> as_value("str", read_string(R1))
              [] tag = 6 -> as_value("code", deserialize_code_obj(R1))
              [] tag = 7 -> as_value("list", read_counted(R1, "values"))
              [] OTHER -> Got([R1 EXCEPT !.error = "ValueError"], NoneV)

\* One assignment of _deserialize_code_obj: P holds the reader and the code
\* object built so far; the field is read as a string, a '<I' number or a
\* counted list.
put_field(P, field, got) == Got(got.R, [P.val EXCEPT ![field] = got.val])

read_field(P, field, kind) ==
    put_field(P, field, CASE kind = "string" -> read_string(P.R)
                          [] kind = "u32" -> read_u32(P.R)
                          [] OTHER -> read_counted(P.R, kind))

\* The fields of a code object in the order of the file.
CodeFields ==
    << <<"name", "string">>, <<"param_count", "u32">>, <<"param_names", "strings">>,
       <<"var_args", "string">>, <<"kw_args", "string">>, <<"constants", "values">>,
       <<"names", "strings">>, <<"instructions", "instructions">> >>

RECURSIVE read_fields(_, _)
read_fields(P, fields) ==
    IF fields = <<>> \/ P.R.error # "" THEN P
    ELSE read_fields(read_field(P, Head(fields)[1], Head(fields)[2]), Tail(fields))

\* _deserialize_code_obj.  An empty var_args or kw_args string is read back
\* as None, which NoName stands for.
deserialize_code_obj(R) == read_fields(Got(R, CodeObject("")), CodeFields)

\* A reader that took any two bytes for the version.
deserialize_code_AnyVersion(data) ==
    IF SubSeq(data, 1, IF Len(data) < 4 THEN Len(data) ELSE 4) # KLC_MAGIC
    THEN [code |-> CodeObject(""), error |-> "ValueError"]
    ELSE IF Len(data) < 6 THEN [code |-> CodeObject(""), error |-> "struct.error"]
    ELSE LET c == deserialize_code_obj(Reader(data, 6, ""))
         IN [code |-> c.val, error |-> c.R.error]

\* deserialize_code: the code object, or the error raised.
deserialize_code(data) ==
    IF SubSeq(data, 1, IF Len(data) < 4 THEN Len(data) ELSE 4) # KLC_MAGIC
    THEN [code |-> CodeObject(""), error |-> "ValueError"]
    ELSE IF Len(data) < 6 THEN [code |-> CodeObject(""), error |-> "struct.error"]
    ELSE IF SubSeq(data, 5, 6) # KLC_VERSION
    THEN [code |-> CodeObject(""), error |-> "ValueError"]
    ELSE LET c == deserialize_code_obj(Reader(data, 6, ""))
         IN [code |-> c.val, error |-> c.R.error]

(***************************************************************************)
(*          BYTECODE COMPILER (kilat_compiler.py)                          *)
(* The compiler object is the record C = [code, loop_stack, globals,       *)
(* error]; error is the CompileError message, "" while there is none.      *)
(***************************************************************************)
KilatBytecodeCompiler(name) ==
    [code |-> CodeObject(name), loop_stack |-> <<>>, globals |-> {}, error |-> ""]

\* CodeObject.current_offset.
current_offset(C) == Len(C.code.instructions)

\* CodeObject.emit; the index of the new instruction is current_offset
\* before the call.
emit(C, opcode, arg, line) ==
    [C EXCEPT !.code.instructions = Append(@, Instruction(opcode, arg, line))]

\* A patch that sets the jump two instructions behind its target.
patch_jump_Late(C, instr_index, target) ==
    [C EXCEPT !.code.instructions[instr_index + 1].arg = target + 2]

\* CodeObject.patch_jump.
patch_jump(C, instr_index, target) ==
    [C EXCEPT !.code.instructions[instr_index + 1].arg = target]

\* emit(LOAD_CONST, add_constant(value), line).
emit_const(C, value, line) ==
    emit([C EXCEPT !.code = add_constant(@, value)], "LOAD_CONST",
         constant_index(C.code, value), line)

\* emit(opcode, add_name(name), line).
emit_name(C, opcode, name, line) ==
    emit([C EXCEPT !.code = add_name(@, name)], opcode,
         name_index(C.code, name), line)

\* KilatBytecodeCompiler._is_expression.
is_expression(node) ==
    node.t \in {"NumberNode", "StringNode", "BooleanNode", "NoneNode",
                "IdentifierNode", "FStringNode", "ListNode", "DictNode",
                "BinaryOpNode", "UnaryOpNode", "FunctionCallNode",
                "AttributeNode", "IndexNode", "TupleNode", "ListCompNode",
                "LambdaNode", "TernaryNode", "SliceNode"}

\* aug_map of _compile_AugmentedAssignmentNode.
aug_map ==
    ("+" :> "AUG_ADD") @@ ("-" :> "AUG_SUB") @@ ("*" :> "AUG_MUL") @@ ("/" :> "AUG_DIV")
        @@ ("//" :> "AUG_FLOOR_DIV") @@ ("**" :> "AUG_POW") @@ ("%" :> "AUG_MOD")

\* _compile_GlobalNode: the name joins the compiler's set of globals and a
\* DECLARE_GLOBAL is emitted.
RECURSIVE compile_globals(_, _, _)
compile_globals(names, C, line) ==
    IF names = <<>> THEN C
    ELSE compile_globals(Tail(names),
             emit_name([C EXCEPT !.globals = @ \cup {Head(names)}],
                       "DECLARE_GLOBAL", Head(names), line),
             line)

\* op_map of _compile_BinaryOpNode.
op_map(op) ==
    CASE op = "+" -> "BINARY_ADD"
      [] op = "-" -> "BINARY_SUB"
      [] op = "*" -> "BINARY_MUL"
      [] op = "/" -> "BINARY_DIV"
      [] op = "//" -> "BINARY_FLOOR_DIV"
      [] op = "%" -> "BINARY_MOD"
      [] op = "**" -> "BINARY_POW"
      [] op = "==" -> "COMPARE_EQ"
      [] op = "!=" -> "COMPARE_NE"
      [] op = "<" -> "COMPARE_LT"
      [] op = ">" -> "COMPARE_GT"
      [] op = "<=" -> "COMPARE_LE"
      [] op = ">=" -> "COMPARE_GE"
      [] OTHER -> "NOP"

\* for bp in break_patches: patch_jump(bp, end_target).
RECURSIVE patch_all(_, _, _)
patch_all(C, patches, target) ==
    IF patches = <<>> THEN C
    ELSE patch_all(patch_jump(C, Head(patches), target), Tail(patches), target)

\* The loop of _compile_FromImportNode: DUP_TOP, IMPORT_FROM name,
\* STORE_NAME_DEFINE alias-or-name for each imported name.
RECURSIVE import_names(_, _, _, _)
import_names(names, aliases, C, line) ==
    IF names = <<>> THEN C
    ELSE import_names(
            Tail(names), Tail(aliases),
            emit_name(emit_name(emit(C, "DUP_TOP", 0, line),
                                "IMPORT_FROM", Head(names), line),
                      "STORE_NAME_DEFINE",
                      IF Head(aliases) # NoName THEN Head(aliases) ELSE Head(names),
                      line),
            line)

RECURSIVE compile_node(_, _), compile_body(_, _), compile_each(_, _),
          compile_handlers(_, _, _, _), store_each(_, _, _),
          compile_decorators(_, _, _, _), compile_methods(_, _, _)

\* for x in nodes: compile_node(x).
compile_each(nodes, C) ==
    IF nodes = <<>> THEN C
    ELSE compile_each(Tail(nodes), compile_node(Head(nodes), C))

\* The statement loop of a body: compile_node, then POP_TOP (with no line)
\* after an expression statement.
compile_body(stmts, C) ==
    IF stmts = <<>> \/ C.error # "" THEN C
    ELSE LET C1 == compile_node(Head(stmts), C)
         IN compile_body(Tail(stmts),
                IF is_expression(Head(stmts)) THEN emit(C1, "POP_TOP", 0, 0) ELSE C1)

\* for var in node.variables: emit(STORE_NAME, add_name(var)).
store_each(names, C, line) ==
    IF names = <<>> THEN C
    ELSE store_each(Tail(names), emit_name(C, "STORE_NAME", Head(names), line), line)

\* A compiler that enters every loop as a while-loop.
push_loop_While(C, loop_type) ==
    [C EXCEPT !.loop_stack =
        Append(@, [loop_type |-> "while", loop_start |-> current_offset(C),
                   break_patches |-> <<>>])]

\* self._loop_stack.append((loop_type, loop_start, break_patches)) with
\* loop_start the current offset.
push_loop(C, loop_type) ==
    [C EXCEPT !.loop_stack =
        Append(@, [loop_type |-> loop_type, loop_start |-> current_offset(C),
                   break_patches |-> <<>>])]

\* loop_info = self.loop_stack.pop(), then every break jump is patched to
\* the current offset.
close_loop(C) ==
    patch_all([C EXCEPT !.loop_stack = Front(@)], Last(C.loop_stack).break_patches,
              current_offset(C))

\* The loop target of a for: UNPACK_SEQUENCE and one STORE_NAME per
\* variable, or a single STORE_NAME.
store_loop_target(node, C, line) ==
    IF node.variables # <<>>
    THEN store_each(node.variables,
                    emit(C, "UNPACK_SEQUENCE", Len(node.variables), line), line)
    ELSE emit_name(C, "STORE_NAME", node.variable, line)

\* _compile_ListCompNode: append the element to the temporary list.
append_item(C, line) ==
    emit(emit(emit(emit_name(emit(C, "ROT_TWO", 0, line), "LOAD_ATTR", "append", line),
                   "ROT_TWO", 0, line),
              "CALL_FUNCTION", 1, line),
         "POP_TOP", 0, line)

\* _compile_ListCompNode after the element: skip_jump is patched past the
\* append, the loop jumps back, and the instruction at index loop_start is
\* patched to the loop exit.
close_listcomp(C, has_condition, skip_jump, loop_start, temp_name, line) ==
    LET C7 == IF has_condition THEN patch_jump(C, skip_jump, current_offset(C)) ELSE C
        C8 == emit(C7, "JUMP_ABSOLUTE", loop_start, line)
    IN emit_name(patch_jump(C8, loop_start, current_offset(C7) + 1),
                 "LOAD_NAME", temp_name, line)

\* The loop over reversed(node.decorators) of _compile_FunctionDefNode and
\* _compile_ClassDefNode; i is the place of the next decorator compiled.
compile_decorators(decorators, i, C, line) ==
    IF i = 0 THEN C
    ELSE compile_decorators(decorators, i - 1,
             emit(emit(compile_node(decorators[i], C), "ROT_TWO", 0, line),
                  "CALL_FUNCTION", 1, line),
             line)

\* _compile_ClassDefNode: the compiler of a method once its body is compiled.
method_compiler(stmt) ==
    compile_body(stmt.body,
                 [KilatBytecodeCompiler(stmt.name)
                     EXCEPT !.code.param_count = Len(stmt.parameters),
                            !.code.param_names = stmt.parameters,
                            !.code.var_args = stmt.var_args,
                            !.code.kw_args = stmt.kw_args])

\* _compile_ClassDefNode: the code object of a method.
method_code(stmt) ==
    emit(emit_const(method_compiler(stmt), NoneV, 0), "RETURN_VALUE", 0, 0).code

\* _compile_ClassDefNode: the loop over node.body; the result carries the
\* compiler and method_names.
compile_methods(stmts, C, method_names) ==
    IF stmts = <<>> \/ C.error # "" THEN [C |-> C, method_names |-> method_names]
    ELSE IF Head(stmts).t = "FunctionDefNode"
         THEN IF method_compiler(Head(stmts)).error # ""
              THEN [C |-> [C EXCEPT !.error = method_compiler(Head(stmts)).error],
                    method_names |-> method_names]
              ELSE compile_methods(Tail(stmts),
                       emit(emit_const(compile_each(Head(stmts).defaults, C),
                                       Val("code", method_code(Head(stmts))),
                                       LineOf(Head(stmts))),
                            "MAKE_FUNCTION", Len(Head(stmts).defaults),
                            LineOf(Head(stmts))),
                       Append(method_names, StrV(Head(stmts).name)))
    ELSE IF Head(stmts).t = "AssignmentNode"
         THEN compile_methods(Tail(stmts), compile_node(Head(stmts).value, C),
                  Append(method_names, StrV("__classvar__" \o Head(stmts).target)))
    ELSE compile_methods(Tail(stmts), C, method_names)

\* _compile_ClassDefNode from the class name on.
compile_class(node, M, line) ==
    IF M.C.error # "" THEN M.C
    ELSE emit_name(
             compile_decorators(node.decorators, Len(node.decorators),
                 emit(emit_const(emit_const(M.C, StrV(node.name), line),
                                 ListV(M.method_names), line),
                      "MAKE_CLASS", Len(M.method_names), line),
                 line),
             "STORE_NAME_DEFINE", node.name, line)

\* The handler loop of _compile_TryNode; the result carries the compiler
\* and handler_end_jumps.
compile_handlers(clauses, C, line, jumps) ==
    IF clauses = <<>> THEN [C |-> C, jumps |-> jumps]
    ELSE LET exc_type == Head(clauses)[1]
             exc_alias == Head(clauses)[2]
             exc_body == Head(clauses)[3]
             C1 == IF exc_type # NoName
                   THEN emit_name(C, "MATCH_EXCEPTION", exc_type, line)
                   ELSE emit(C, "MATCH_EXCEPTION", -1, line)
             no_match == current_offset(C) + 1
             C2 == emit(C1, "JUMP_IF_FALSE", 0, line)
             C3 == IF exc_alias # NoName
                   THEN LET A == [C2 EXCEPT !.code = add_name(@, exc_alias)]
                        IN emit(emit_const(A, StrV("__exception__"), line),
                                "STORE_NAME_DEFINE", name_index(A.code, exc_alias), line)
                   ELSE C2
         IN Only({ compile_handlers(Tail(clauses),
                       patch_jump(emit(C4, "JUMP_ABSOLUTE", 0, line), no_match,
                                  current_offset(C4) + 1),
                       line, Append(jumps, current_offset(C4)))
                   : C4 \in {compile_body(exc_body, C3)} })

\* KilatBytecodeCompiler.compile_node with the _compile_<Node> methods.
compile_node(node, C) ==
    LET line == LineOf(node) IN
    IF C.error # "" THEN C
    ELSE CASE node.t \in {"NumberNode", "StringNode", "BooleanNode"} ->
            emit_const(C, node.value, line)
      [] node.t = "NoneNode" -> emit_const(C, NoneV, line)
      [] node.t = "IdentifierNode" ->
            emit_name(C, IF node.name \in C.globals THEN "LOAD_GLOBAL" ELSE "LOAD_NAME",
                      node.name, line)
      [] node.t = "ListNode" ->
            emit(compile_each(node.elements, C), "BUILD_LIST", Len(node.elements), line)
      [] node.t = "TupleNode" ->
            emit(compile_each(node.elements, C), "BUILD_TUPLE", Len(node.elements), line)
      [] node.t = "BinaryOpNode" ->
            IF node.operator \in {"dan", "atau_logik"}
            THEN \* jump_idx is the offset after the left operand
                 Only({ Only({ patch_jump(C3, current_offset(C1), current_offset(C3))
                               : C3 \in {compile_node(node.right,
                                            emit(C1, IF node.operator = "dan"
                                                     THEN "JUMP_IF_FALSE_OR_POP"
                                                     ELSE "JUMP_IF_TRUE_OR_POP", 0, line))} })
                        : C1 \in {compile_node(node.left, C)} })
            ELSE emit(compile_node(node.right, compile_node(node.left, C)),
                      op_map(node.operator), 0, line)
      [] node.t = "UnaryOpNode" ->
            emit(compile_node(node.operand, C),
                 CASE node.operator = "-" -> "UNARY_NEG"
                   [] node.operator = "+" -> "UNARY_POS"
                   [] OTHER -> "UNARY_NOT", 0, line)
      [] node.t = "AssignmentNode" ->
            emit_name(compile_node(node.value, C),
                      IF node.target \in C.globals THEN "STORE_GLOBAL"
                      ELSE "STORE_NAME_DEFINE", node.target, line)
      [] node.t = "AugmentedAssignmentNode" ->
            IF node.operator \in DOMAIN aug_map
            THEN emit_name(compile_node(node.value, C), aug_map[node.operator],
                           node.target, line)
            ELSE [compile_node(node.value, C) EXCEPT
                     !.error = "Unknown augmented operator"]
      [] node.t = "GlobalNode" -> compile_globals(node.names, C, line)
      [] node.t = "IfNode" ->
            \* false_jump is the offset after the condition (C1), end_jump
            \* the offset after the then body (C3)
            Only({ Only({ Only({ IF C6.error # "" THEN C6
                                 ELSE patch_jump(C6, current_offset(C3), current_offset(C6))
                                 : C6 \in {compile_body(node.else_body,
                                              patch_jump(emit(C3, "JUMP_ABSOLUTE", 0, line),
                                                         current_offset(C1),
                                                         current_offset(C3) + 1))} })
                          : C3 \in {compile_body(node.then_body,
                                                 emit(C1, "JUMP_IF_FALSE", 0, line))} })
                   : C1 \in {compile_node(node.condition, C)} })
      [] node.t = "WhileNode" ->
            \* loop_start is the offset on entry, exit_jump the offset after
            \* the condition (C1)
            Only({ Only({ IF C3.error # "" THEN C3
                          ELSE close_loop(
                                  patch_jump(emit(C3, "JUMP_ABSOLUTE", current_offset(C), line),
                                             current_offset(C1), current_offset(C3) + 1))
                          : C3 \in {compile_body(node.body,
                                                 emit(C1, "JUMP_IF_FALSE", 0, line))} })
                   : C1 \in {compile_node(node.condition, push_loop(C, "while"))} })
      [] node.t = "ForNode" ->
            \* loop_start and iter_jump are the offset after GET_ITER (C1)
            Only({ Only({ IF C5.error # "" THEN C5
                          ELSE close_loop(
                                  patch_jump(emit(C5, "JUMP_ABSOLUTE", current_offset(C1), line),
                                             current_offset(C1), current_offset(C5) + 1))
                          : C5 \in {compile_body(node.body,
                                       store_loop_target(node,
                                           emit(push_loop(C1, "for"), "FOR_ITER", 0, line),
                                           line))} })
                   : C1 \in {emit(compile_node(node.iterable, C), "GET_ITER", 0, line)} })
      [] node.t = "BreakNode" ->
            IF C.loop_stack = <<>> THEN [C EXCEPT !.error = "'berhenti' di luar gelung"]
            ELSE LET C1 == IF Last(C.loop_stack).loop_type = "for"
                           THEN emit(C, "POP_TOP", 0, line) ELSE C
                 IN [emit(C1, "JUMP_ABSOLUTE", 0, line)
                        EXCEPT !.loop_stack[Len(C.loop_stack)].break_patches =
                                    Append(@, current_offset(C1))]
      [] node.t = "ContinueNode" ->
            IF C.loop_stack = <<>> THEN [C EXCEPT !.error = "'teruskan' di luar gelung"]
            ELSE emit(C, "JUMP_ABSOLUTE", Last(C.loop_stack).loop_start, line)
      [] node.t = "ReturnNode" ->
            emit(IF node.value.t # "NoNode" THEN compile_node(node.value, C)
                 ELSE emit_const(C, NoneV, line), "RETURN_VALUE", 0, line)
      [] node.t = "FunctionCallNode" ->
            LET kw == node.keyword_args
                C3 == compile_each([i \in 1..Len(kw) |-> kw[i][2]],
                         compile_each(node.arguments,
                            emit_name(C, IF node.function \in C.globals
                                         THEN "LOAD_GLOBAL" ELSE "LOAD_NAME",
                                      node.function, line)))
                kw_names == ListV([i \in 1..Len(kw) |-> StrV(kw[i][1])])
            IN IF kw # <<>>
               THEN emit(emit_const(C3, kw_names, line), "CALL_FUNCTION_KW",
                         Len(node.arguments), line)
               ELSE emit(C3, "CALL_FUNCTION", Len(node.arguments), line)
      [] node.t = "TryNode" ->
            \* setup_idx is the offset on entry, end_jump the offset after
            \* POP_TRY (C2), finally_start the offset after END_FINALLY
            Only({ Only({ Only({ IF C6.error # "" THEN C6
                                 ELSE LET target == IF node.finally_body # <<>>
                                                    THEN current_offset(H.C) + 1
                                                    ELSE current_offset(C6)
                                      IN patch_all(patch_jump(C6, current_offset(C2), target),
                                                   H.jumps, target)
                                 : C6 \in {compile_body(node.finally_body,
                                              emit(H.C, "END_FINALLY", 0, line))} })
                          : H \in {compile_handlers(node.except_clauses,
                                      patch_jump(emit(C2, "JUMP_ABSOLUTE", 0, line),
                                                 current_offset(C), current_offset(C2) + 1),
                                      line, <<>>)} })
                   : C2 \in {emit(compile_body(node.try_body,
                                               emit(C, "SETUP_TRY", 0, line)),
                                  "POP_TRY", 0, line)} })
      [] node.t = "RaiseNode" -> emit(compile_node(node.exception, C), "RAISE", 0, line)
      [] node.t = "FromImportNode" ->
            emit(import_names(node.names, node.aliases,
                              emit_name(C, "IMPORT_MODULE", node.module, line), line),
                 "POP_TOP", 0, line)
      [] node.t = "PassNode" -> emit(C, "NOP", 0, line)
      [] node.t = "ListCompNode" ->
            \* loop_start is the offset after GET_ITER (C2), skip_jump the
            \* index of the last instruction of the condition part (C4)
            LET temp_name == "__lc_" \o IntStr(current_offset(C)) \o "__"
                has_condition == node.condition.t # "NoNode"
                C1 == emit_name(emit([C EXCEPT !.code = add_name(@, temp_name)],
                                     "BUILD_LIST", 0, line),
                                "STORE_NAME", temp_name, line)
            IN Only({ Only({ Only({ close_listcomp(append_item(C5, line), has_condition,
                                        current_offset(C4) - 1, current_offset(C2),
                                        temp_name, line)
                                    : C5 \in {compile_node(node.expression,
                                                 emit_name(C4, "LOAD_NAME", temp_name, line))} })
                             : C4 \in {LET C3 == emit_name(emit(C2, "FOR_ITER", 0, line),
                                                           "STORE_NAME", node.variable, line)
                                       IN IF has_condition
                                          THEN emit(compile_node(node.condition, C3),
                                                    "JUMP_IF_FALSE", 0, line)
                                          ELSE C3} })
                      : C2 \in {emit(compile_node(node.iterable, C1), "GET_ITER", 0, line)} })
      [] node.t = "FunctionDefNode" ->
            LET F1 == [KilatBytecodeCompiler(node.name)
                          EXCEPT !.code.param_count = Len(node.parameters),
                                 !.code.param_names = node.parameters,
                                 !.code.var_args = node.var_args,
                                 !.code.kw_args = node.kw_args]
            IN Only({ IF F2.error # "" THEN [C EXCEPT !.error = F2.error]
                      ELSE emit_name(
                              compile_decorators(node.decorators, Len(node.decorators),
                                  emit(emit_const(compile_each(node.defaults, C),
                                          Val("code", emit(emit_const(F2, NoneV, 0),
                                                           "RETURN_VALUE", 0, 0).code),
                                          line),
                                       "MAKE_FUNCTION", Len(node.defaults), line),
                                  line),
                              "STORE_NAME_DEFINE", node.name, line)
                      : F2 \in {compile_body(node.body, F1)} })
      [] node.t = "ClassDefNode" ->
            compile_class(node,
                compile_methods(node.body,
                    IF node.base_class # NoName
                    THEN emit_name(C, "LOAD_NAME", node.base_class, line)
                    ELSE emit_const(C, NoneV, line),
                    <<>>),
                line)
      [] OTHER -> [C EXCEPT !.error = "Cannot compile node type"]

\* The statement loop of compile_program: POP_TOP carries the line of the
\* expression statement.
RECURSIVE compile_statements(_, _)
compile_statements(stmts, C) ==
    IF stmts = <<>> \/ C.error # "" THEN C
    ELSE LET C1 == compile_node(Head(stmts), C)
         IN compile_statements(Tail(stmts),
                IF is_expression(Head(stmts))
                THEN emit(C1, "POP_TOP", 0, LineOf(Head(stmts))) ELSE C1)

\* KilatBytecodeCompiler.compile_program on a module compiler named after
\* the file.
compile_program(program) ==
    compile_statements(program.statements, KilatBytecodeCompiler("<kilat>"))

(***************************************************************************)
(*                 VIRTUAL MACHINE (kilat_vm.py, KilatVM)                  *)
(* The machine is small-step.  Its state holds the stack of frames (one    *)
(* per active _execute_frame, the last is the running one), the heap of    *)
(* environments, the lines written to standard output and the status:     *)
(* "running", "exit0", the class of the exception that ended the run, or   *)
(* "unmodelled" when the program uses an operation on host objects that    *)
(* the value model does not carry (attributes, item assignment, classes,   *)
(* imports).                                                               *)
(***************************************************************************)

\* frame.current_exception = None
NoException == Exc("None", "")

VMReturn(value) == Exc("VMReturn", value)

\* class Frame.  ip is 0-based; the top of the stack is its last element.
Frame(code, env) ==
    [code |-> code, stack |-> <<>>, env |-> env, ip |-> 0, try_stack |-> <<>>,
     current_exception |-> NoException]

\* class VMFunction.
VMFunction(name, code, defaults, closure) ==
    Val("vmfunction",
        [name |-> name, code |-> code, defaults |-> defaults, closure |-> closure])

\* KilatVM.__init__ and the frame KilatVM.run creates.
KilatVM(code) ==
    [frames |-> <<Frame(code, 1)>>, envs |-> <<GlobalEnv>>, out |-> <<>>,
     status |-> "running"]

top(vm) == vm.frames[Len(vm.frames)]

\* Frame.push, and popping n values.
push(vm, value) == [vm EXCEPT !.frames[Len(vm.frames)].stack = Append(@, value)]

drop(vm, n) ==
    [vm EXCEPT !.frames[Len(vm.frames)].stack = SubSeq(@, 1, Len(@) - n)]

\* The topmost n values, the deepest first (`insert(0, frame.pop())`).
topmost(stack, n) == SubSeq(stack, Len(stack) - n + 1, Len(stack))

jump(vm, target) == [vm EXCEPT !.frames[Len(vm.frames)].ip = target]

unmodelled(vm) == [vm EXCEPT !.status = "unmodelled"]

\* An exception raised while the top frame executes an instruction: the
\* except clauses of _execute_frame, _call_vm_function and run.  Only
\* KilatException and KilatRuntimeError are dispatched to a handler of the
\* frame; VMReturn ends the called frame with its value; every other
\* exception leaves each frame in turn and ends the run.
\* A dispatch that looks for a handler in the running frame only.
vm_raise_TopFrame(vm, exc) ==
    LET frame == top(vm)
    IN IF exc.k \in {"KilatException", "KilatRuntimeError"} /\ frame.try_stack # <<>>
       THEN [vm EXCEPT !.frames[Len(vm.frames)] =
                [frame EXCEPT !.try_stack = Front(@),
                              !.current_exception = exc,
                              !.ip = Last(frame.try_stack)]]
       ELSE IF Len(vm.frames) > 1 /\ exc.k = "VMReturn"
       THEN push([vm EXCEPT !.frames = Front(@)], exc.v)
       ELSE [vm EXCEPT !.frames = <<>>, !.status = exc.k]

RECURSIVE vm_raise(_, _)
vm_raise(vm, exc) ==
    LET frame == top(vm)
    IN IF exc.k \in {"KilatException", "KilatRuntimeError"} /\ frame.try_stack # <<>>
       THEN [vm EXCEPT !.frames[Len(vm.frames)] =
                [frame EXCEPT !.try_stack = Front(@),
                              !.current_exception = exc,
                              !.ip = Last(frame.try_stack)]]
       ELSE IF Len(vm.frames) = 1 THEN [vm EXCEPT !.frames = <<>>, !.status = exc.k]
       ELSE IF exc.k = "VMReturn" THEN push([vm EXCEPT !.frames = Front(@)], exc.v)
       ELSE vm_raise([vm EXCEPT !.frames = Front(@)], exc)

\* The while loop of _execute_frame ends: the frame returns None.
frame_return(vm) ==
    IF Len(vm.frames) = 1 THEN [vm EXCEPT !.frames = <<>>, !.status = "exit0"]
    ELSE push([vm EXCEPT !.frames = Front(@)], NoneV)

\* The positional loop of _call_vm_function from argument i on.
RECURSIVE vm_bind_positional(_, _, _, _, _)
vm_bind_positional(envs, func_env, params, args, i) ==
    IF i > Len(args) THEN [envs |-> envs, error |-> ""]
    ELSE IF i > Len(params) THEN [envs |-> envs, error |-> "menerima paling banyak"]
    ELSE vm_bind_positional(define(envs, func_env, params[i], args[i]),
                            func_env, params, args, i + 1)

\* The keyword loop of _call_vm_function; kwargs is a sequence of
\* <<name, value>> in the order of the dict.
RECURSIVE vm_bind_keywords(_, _, _, _)
vm_bind_keywords(B, func_env, params, kwargs) ==
    IF B.error # "" \/ kwargs = <<>> THEN B
    ELSE IF \A i \in 1..Len(params) : params[i] # Head(kwargs)[1]
         THEN [B EXCEPT !.error = "tidak ada parameter"]
    ELSE vm_bind_keywords(
             [B EXCEPT !.envs = define(@, func_env, Head(kwargs)[1], Head(kwargs)[2])],
             func_env, params, Tail(kwargs))

\* The defaults loop of _call_vm_function from parameter i on.
RECURSIVE vm_fill_defaults(_, _, _, _)
vm_fill_defaults(B, func_env, func, i) ==
    IF B.error # "" \/ i > Len(func.code.param_names) THEN B
    ELSE IF func.code.param_names[i] \in DOMAIN B.envs[func_env].variables
         THEN vm_fill_defaults(B, func_env, func, i + 1)
    ELSE LET required_count == func.code.param_count - Len(func.defaults)
             default_index == (i - 1) - required_count
         IN IF default_index < 0 \/ default_index >= Len(func.defaults)
            THEN [B EXCEPT !.error = "memerlukan argumen"]
            ELSE vm_fill_defaults(
                     [B EXCEPT !.envs = define(@, func_env, func.code.param_names[i],
                                               func.defaults[default_index + 1])],
                     func_env, func, i + 1)

\* The binding part of _call_vm_function: the heap with the new function
\* scope (the last environment), or the error raised.
vm_bind_arguments(envs, func, args, kwargs) ==
    vm_fill_defaults(
        vm_bind_keywords(
            vm_bind_positional(Append(envs, Environment(func.closure)),
                               Len(envs) + 1, func.code.param_names, args, 1),
            Len(envs) + 1, func.code.param_names, kwargs),
        Len(envs) + 1, func, 1)

\* _call_vm_function: the frame of the body is started on the bound scope.
enter_frame(vm, func, B) ==
    IF B.error # "" THEN vm_raise(vm, KilatRuntimeError(B.error))
    ELSE [vm EXCEPT !.envs = B.envs,
                    !.frames = Append(@, Frame(func.code, Len(B.envs)))]

_call_vm_function(vm, func, args, kwargs) ==
    enter_frame(vm, func, vm_bind_arguments(vm.envs, func, args, kwargs))

\* A host callable returned or raised: TypeError becomes KilatRuntimeError.
builtin_result(r) ==
    IF r.ok THEN push(r.st, r.val)
    ELSE IF r.val.k = "TypeError" THEN vm_raise(r.st, KilatRuntimeError(r.val.v))
    ELSE vm_raise(r.st, r.val)

\* KilatVM._call_function; func and the arguments are already popped.
_call_function(vm, func, args, kwargs) ==
    IF func.k = "vmfunction" THEN _call_vm_function(vm, func.v, args, kwargs)
    ELSE IF func.k = "class" THEN unmodelled(vm)
    ELSE IF func.k = "builtin"
         THEN IF kwargs # <<>> THEN unmodelled(vm)
              ELSE builtin_result(CallBuiltin(func.v, args, vm))
    ELSE vm_raise(vm, KilatRuntimeError("Tidak boleh dipanggil"))

\* The binary operators of the arithmetic and comparison instructions.
BinaryOps ==
    [BINARY_ADD |-> "+", BINARY_SUB |-> "-", BINARY_MUL |-> "*", BINARY_DIV |-> "/",
     BINARY_FLOOR_DIV |-> "//", BINARY_MOD |-> "%", BINARY_POW |-> "**",
     COMPARE_EQ |-> "==", COMPARE_NE |-> "!=", COMPARE_LT |-> "<",
     COMPARE_GT |-> ">", COMPARE_LE |-> "<=", COMPARE_GE |-> ">="]

AugOps ==
    [AUG_ADD |-> "+", AUG_SUB |-> "-", AUG_MUL |-> "*", AUG_DIV |-> "/",
     AUG_FLOOR_DIV |-> "//", AUG_POW |-> "**", AUG_MOD |-> "%"]

\* The host's result pushed, or its exception raised as it is.
push_host(vm, h) == IF IsHostError(h) THEN vm_raise(vm, h) ELSE push(vm, h)

\* BINARY_* and COMPARE_EQ..COMPARE_GE; left and right are popped.
binary_instr(vm, opcode, left, right) ==
    IF opcode = "BINARY_DIV" /\ PyEq(right, IntV(0))
    THEN vm_raise(vm, KilatRuntimeError("Pembahagian dengan sifar"))
    ELSE IF opcode = "BINARY_FLOOR_DIV" /\ PyEq(right, IntV(0))
    THEN vm_raise(vm, KilatRuntimeError("Pembahagian lantai dengan sifar"))
    ELSE push_host(vm, HostBinary(BinaryOps[opcode], left, right))

\* AUG_*: frame.env.get(name), the operator, frame.env.set(name, result).
store_host(vm, env, name, h) ==
    IF IsHostError(h) THEN vm_raise(vm, h)
    ELSE [vm EXCEPT !.envs = env_set(@, env, name, h)]

aug_instr(vm, opcode, env, name, operand) ==
    IF ~env_has(vm.envs, env, name)
    THEN vm_raise(vm, KilatRuntimeError("Pembolehubah tidak ditakrifkan"))
    ELSE store_host(vm, env, name,
                    HostBinary(AugOps[opcode], env_get(vm.envs, env, name), operand))

\* iter(iterable): an iterator is the items and the number already taken.
Chars(s) == [i \in 1..Len(s) |-> StrV(SubSeq(s, i, i))]

get_iter(vm, iterable) ==
    IF iterable.k \in {"list", "tuple"}
    THEN push(vm, Val("iter", [items |-> iterable.v, taken |-> 0]))
    ELSE IF iterable.k = "str"
    THEN push(vm, Val("iter", [items |-> Chars(iterable.v), taken |-> 0]))
    ELSE IF iterable.k = "iter" THEN push(vm, iterable)
    ELSE vm_raise(vm, Exc("TypeError", "object is not iterable"))

\* FOR_ITER: next(iterator) on the iterator at the top of the stack.
for_iter(vm, iterator, arg) ==
    IF iterator.k # "iter" THEN vm_raise(vm, Exc("TypeError", "object is not an iterator"))
    ELSE IF iterator.v.taken < Len(iterator.v.items)
    THEN push(push(drop(vm, 1), Val("iter", [iterator.v EXCEPT !.taken = @ + 1])),
              iterator.v.items[iterator.v.taken + 1])
    ELSE jump(drop(vm, 1), arg)

\* LOAD_INDEX: obj[index]; KeyError, IndexError and TypeError are wrapped.
load_index(vm, obj, index) ==
    IF obj.k \in {"list", "tuple"} /\ IsNum(index)
    THEN LET i == IF NumOf(index) < 0 THEN NumOf(index) + Len(obj.v) ELSE NumOf(index)
         IN IF i >= 0 /\ i < Len(obj.v) THEN push(vm, obj.v[i + 1])
            ELSE vm_raise(vm, KilatRuntimeError("index out of range"))
    ELSE IF obj.k \in {"list", "tuple", "none", "bool", "int", "float"}
    THEN vm_raise(vm, KilatRuntimeError("not subscriptable"))
    ELSE unmodelled(vm)

\* MATCH_EXCEPTION with a type name.
match_exception(exc_type_name, exc) ==
    IF exc.k = "KilatException" THEN TRUE
    ELSE IF exc.k = NoException.k THEN exc_type_name \in {"object", "NoneType"}
    ELSE HostMatch(exc_type_name, exc)

\* LOAD_NAME and the fallback of LOAD_GLOBAL: frame.env.get(name).
load_name(vm, env, name) ==
    IF env_has(vm.envs, env, name) THEN push(vm, env_get(vm.envs, env, name))
    ELSE vm_raise(vm, KilatRuntimeError("Pembolehubah tidak ditakrifkan"))

\* `g = frame.env; while g.parent: g = g.parent; g.variables[name] = value`
store_root(vm, env, name, value) ==
    [vm EXCEPT !.envs = define(@, env_root(@, env), name, value)]

\* MAKE_CLASS: the entries of method_names that name a method (those that
\* do not start with __classvar__), and the class variables.
IsClassVar(mname) ==
    Len(mname) >= Len("__classvar__")
    /\ SubSeq(mname, 1, Len("__classvar__")) = "__classvar__"

\* MAKE_CLASS: class_env with the class variables defined in the order of
\* method_names.
RECURSIVE define_class_vars(_, _, _, _, _)
define_class_vars(envs, class_env, method_names, items, i) ==
    IF i > Len(method_names) THEN envs
    ELSE define_class_vars(
             IF IsClassVar(method_names[i].v)
             THEN define(envs, class_env,
                         SubSeq(method_names[i].v, Len("__classvar__") + 1,
                                Len(method_names[i].v)),
                         items[i])
             ELSE envs,
             class_env, method_names, items, i + 1)

\* MAKE_CLASS: the item of the last entry of method_names with this name.
LastNamed(method_names, items, mname) ==
    items[CHOOSE i \in 1..Len(method_names) :
             /\ method_names[i].v = mname
             /\ \A j \in (i + 1)..Len(method_names) : method_names[j].v # mname]

\* MAKE_CLASS: klass.methods, the VMFunctions re-wrapped with class_env as
\* closure.
class_methods(method_names, items, class_env) ==
    [mname \in { method_names[i].v : i \in { j \in 1..Len(method_names) :
                                               ~IsClassVar(method_names[j].v) } } |->
        IF LastNamed(method_names, items, mname).k = "vmfunction"
        THEN VMFunction(LastNamed(method_names, items, mname).v.name,
                        LastNamed(method_names, items, mname).v.code,
                        LastNamed(method_names, items, mname).v.defaults, class_env)
        ELSE LastNamed(method_names, items, mname)]

\* MAKE_CLASS once base_class is resolved.
make_class(vm, env, base_class, items, class_name, method_names) ==
    push([vm EXCEPT !.envs = define_class_vars(Append(@, Environment(env)),
                                               Len(@) + 1, method_names, items, 1)],
         KilatClass(class_name.v,
                    IF base_class.k = "class" THEN base_class ELSE NoneV,
                    class_methods(method_names, items, Len(vm.envs) + 1)))

\* The values CALL_FUNCTION_KW pops: names and values zipped into the dict.
zip_kwargs(kw_names, kw_values) ==
    [i \in 1..Len(kw_names) |-> <<kw_names[i].v, kw_values[i]>>]

\* CALL_FUNCTION_KW once kw_names is popped; n is len(kw_names).
call_kw(vm, stack, kw_names, arg) ==
    LET n == Len(kw_names)
    IN IF Len(stack) < n + arg + 1 THEN vm_raise(vm, Exc("IndexError", "pop from empty list"))
       ELSE _call_function(drop(vm, n + arg + 1),
                           stack[Len(stack) - n - arg],
                           SubSeq(stack, Len(stack) - n - arg + 1, Len(stack) - n),
                           zip_kwargs(kw_names, topmost(stack, n)))

\* The number of values an instruction pops or peeks before anything else.
StackNeed(opcode, arg) ==
    CASE opcode \in {"DUP_TOP", "STORE_NAME", "STORE_NAME_DEFINE", "STORE_GLOBAL",
                     "LOAD_ATTR", "UNARY_NEG", "UNARY_POS", "UNARY_NOT",
                     "JUMP_IF_FALSE", "JUMP_IF_TRUE", "JUMP_IF_FALSE_OR_POP",
                     "JUMP_IF_TRUE_OR_POP", "GET_ITER", "FOR_ITER", "RETURN_VALUE",
                     "RAISE", "CALL_FUNCTION_KW", "IMPORT_FROM"}
                \cup DOMAIN AugOps -> 1
      [] opcode \in {"ROT_TWO", "LOAD_INDEX", "DELETE_INDEX", "COMPARE_IN", "COMPARE_IS"}
                \cup DOMAIN BinaryOps -> 2
      [] opcode \in {"STORE_ATTR", "STORE_INDEX"} -> 3
      [] opcode \in {"MAKE_FUNCTION", "CALL_FUNCTION"} -> arg + 1
      [] opcode \in {"BUILD_LIST", "BUILD_FSTRING"} -> arg
      [] opcode = "BUILD_DICT" -> 2 * arg
      [] opcode = "MAKE_CLASS" -> arg + 3
      [] OTHER -> 0

\* ''.join(str(p) for p in parts)
RECURSIVE concat_str(_)
concat_str(parts) ==
    IF parts = <<>> THEN "" ELSE PyStr(Head(parts)) \o concat_str(Tail(parts))

\* dict(pairs) for the 2 * arg values BUILD_DICT pops.
build_dict(vm, items, arg) ==
    LET pairs == [i \in 1..arg |-> <<items[2 * i - 1], items[2 * i]>>]
    IN IF \E i, j \in 1..arg : i < j /\ PyEq(pairs[i][1], pairs[j][1])
       THEN unmodelled(vm)
       ELSE push(vm, DictV(pairs))

\* `left in right`
compare_in(vm, left, right) ==
    IF right.k \in {"list", "tuple"}
    THEN push(vm, BoolV(\E i \in 1..Len(right.v) : PyEq(left, right.v[i])))
    ELSE IF right.k \in {"none", "bool", "int", "float"}
    THEN vm_raise(vm, Exc("TypeError", "argument is not iterable"))
    ELSE unmodelled(vm)

\* The body of the dispatch loop of _execute_frame for one instruction;
\* frame.ip is already incremented, and s is the stack before it.
dispatch(vm, code, env, s, opcode, arg) ==
    CASE opcode = "NOP" -> vm
      [] opcode = "POP_TOP" -> IF s # <<>> THEN drop(vm, 1) ELSE vm
      [] opcode = "DUP_TOP" -> push(vm, Last(s))
      [] opcode = "ROT_TWO" -> push(push(drop(vm, 2), Last(s)), s[Len(s) - 1])
      [] opcode = "LOAD_CONST" -> push(vm, code.constants[arg + 1])
      [] opcode = "LOAD_NAME" -> load_name(vm, env, code.names[arg + 1])
      [] opcode = "STORE_NAME" ->
            [drop(vm, 1) EXCEPT !.envs = env_set(@, env, code.names[arg + 1], Last(s))]
      [] opcode = "STORE_NAME_DEFINE" ->
            IF code.names[arg + 1] \in vm.envs[env].globals
            THEN store_root(drop(vm, 1), env, code.names[arg + 1], Last(s))
            ELSE [drop(vm, 1) EXCEPT !.envs = define(@, env, code.names[arg + 1], Last(s))]
      [] opcode = "LOAD_GLOBAL" ->
            IF code.names[arg + 1] \in DOMAIN vm.envs[env_root(vm.envs, env)].variables
            THEN push(vm, vm.envs[env_root(vm.envs, env)].variables[code.names[arg + 1]])
            ELSE load_name(vm, env, code.names[arg + 1])
      [] opcode = "STORE_GLOBAL" ->
            store_root(drop(vm, 1), env, code.names[arg + 1], Last(s))
      [] opcode = "DELETE_NAME" ->
            [vm EXCEPT !.envs[env].variables =
                [n \in DOMAIN @ \ {code.names[arg + 1]} |-> @[n]]]
      [] opcode = "LOAD_INDEX" -> load_index(drop(vm, 2), s[Len(s) - 1], Last(s))
      [] opcode \in DOMAIN BinaryOps ->
            binary_instr(drop(vm, 2), opcode, s[Len(s) - 1], Last(s))
      [] opcode \in DOMAIN AugOps ->
            aug_instr(drop(vm, 1), opcode, env, code.names[arg + 1], Last(s))
      [] opcode \in {"UNARY_NEG", "UNARY_POS"} ->
            IF ~IsNum(Last(s))
            THEN vm_raise(drop(vm, 1), Exc("TypeError", "bad operand type for unary"))
            ELSE push(drop(vm, 1),
                      IntV(IF opcode = "UNARY_NEG" THEN -NumOf(Last(s)) ELSE NumOf(Last(s))))
      [] opcode = "UNARY_NOT" -> push(drop(vm, 1), UNARY_NOT(Last(s)))
      [] opcode = "COMPARE_IN" -> compare_in(drop(vm, 2), s[Len(s) - 1], Last(s))
      [] opcode = "COMPARE_IS" ->
            IF {s[Len(s) - 1].k, Last(s).k} \subseteq {"none", "bool"}
            THEN push(drop(vm, 2), BoolV(s[Len(s) - 1] = Last(s)))
            ELSE unmodelled(vm)
      [] opcode = "JUMP_ABSOLUTE" -> jump(vm, arg)
      [] opcode = "JUMP_IF_FALSE" ->
            IF ~vm_is_truthy(Last(s)) THEN jump(drop(vm, 1), arg) ELSE drop(vm, 1)
      [] opcode = "JUMP_IF_TRUE" ->
            IF vm_is_truthy(Last(s)) THEN jump(drop(vm, 1), arg) ELSE drop(vm, 1)
      [] opcode = "JUMP_IF_FALSE_OR_POP" ->
            IF ~vm_is_truthy(Last(s)) THEN jump(vm, arg) ELSE drop(vm, 1)
      [] opcode = "JUMP_IF_TRUE_OR_POP" ->
            IF vm_is_truthy(Last(s)) THEN jump(vm, arg) ELSE drop(vm, 1)
      [] opcode = "GET_ITER" -> get_iter(drop(vm, 1), Last(s))
      [] opcode = "FOR_ITER" -> for_iter(vm, Last(s), arg)
      [] opcode = "BREAK_LOOP" -> vm_raise(vm, Exc("VMBreak", ""))
      [] opcode = "CONTINUE_LOOP" -> vm_raise(vm, Exc("VMContinue", arg))
      [] opcode = "MAKE_FUNCTION" ->
            push(drop(vm, arg + 1),
                 VMFunction(Last(s).v.name, Last(s).v, topmost(Front(s), arg), env))
      [] opcode = "CALL_FUNCTION" ->
            _call_function(drop(vm, arg + 1), s[Len(s) - arg], topmost(s, arg), <<>>)
      [] opcode = "CALL_FUNCTION_KW" -> call_kw(vm, Front(s), Last(s).v, arg)
      [] opcode = "RETURN_VALUE" -> vm_raise(drop(vm, 1), VMReturn(Last(s)))
      [] opcode = "BUILD_LIST" -> push(drop(vm, arg), ListV(topmost(s, arg)))
      [] opcode = "BUILD_DICT" -> build_dict(drop(vm, 2 * arg), topmost(s, 2 * arg), arg)
      [] opcode = "BUILD_FSTRING" ->
            push(drop(vm, arg),
                 StrV(concat_str(topmost(s, arg))))
      [] opcode = "SETUP_TRY" ->
            [vm EXCEPT !.frames[Len(vm.frames)].try_stack = Append(@, arg)]
      [] opcode = "POP_TRY" ->
            [vm EXCEPT !.frames[Len(vm.frames)].try_stack =
                IF @ # <<>> THEN Front(@) ELSE @]
      [] opcode = "RAISE" -> vm_raise(drop(vm, 1), KilatException(Last(s)))
      [] opcode = "MATCH_EXCEPTION" ->
            push(vm, BoolV(IF arg = -1 THEN TRUE
                           ELSE match_exception(code.names[arg + 1],
                                                top(vm).current_exception)))
      [] opcode = "END_FINALLY" ->
            IF top(vm).current_exception.k # NoException.k
            THEN vm_raise([vm EXCEPT !.frames[Len(vm.frames)].current_exception =
                                         NoException],
                          top(vm).current_exception)
            ELSE vm
      [] opcode = "DECLARE_GLOBAL" ->
            [vm EXCEPT !.envs = declare_global(@, env, code.names[arg + 1])]
      [] opcode = "MAKE_CLASS" ->
            IF Last(s).k # "list" \/ s[Len(s) - 1].k # "str" THEN unmodelled(vm)
            ELSE IF s[Len(s) - arg - 2].k = "str"
            THEN IF env_has(vm.envs, env, s[Len(s) - arg - 2].v)
                 THEN make_class(drop(vm, arg + 3), env,
                                 env_get(vm.envs, env, s[Len(s) - arg - 2].v),
                                 topmost(SubSeq(s, 1, Len(s) - 2), arg),
                                 s[Len(s) - 1], Last(s).v)
                 ELSE vm_raise(drop(vm, arg + 3),
                               KilatRuntimeError("Pembolehubah tidak ditakrifkan"))
            ELSE make_class(drop(vm, arg + 3), env, s[Len(s) - arg - 2],
                            topmost(SubSeq(s, 1, Len(s) - 2), arg),
                            s[Len(s) - 1], Last(s).v)
      [] opcode = "IMPORT_MODULE" ->
            IF code.names[arg + 1] \in HostModules
            THEN push(vm, Val("module", code.names[arg + 1]))
            ELSE vm_raise(vm, KilatRuntimeError("Tidak dapat import"))
      [] opcode = "IMPORT_FROM" ->
            \* mod = frame.peek(); frame.push(getattr(mod, attr_name))
            IF Last(s).k = "module" /\ code.names[arg + 1] \in DOMAIN ModuleAttributes
            THEN push(vm, ModuleAttributes[code.names[arg + 1]])
            ELSE vm_raise(vm, KilatRuntimeError("Import gagal"))
      [] opcode \in {"LOAD_ATTR", "STORE_ATTR", "STORE_INDEX", "DELETE_INDEX"}
            -> unmodelled(vm)
      [] OTHER -> vm_raise(vm, KilatRuntimeError("Unknown opcode"))

\* One iteration of the while loop of _execute_frame on the running frame.
execute_instruction(vm, frame, instr) ==
    IF Len(frame.stack) < StackNeed(instr.opcode, instr.arg)
    THEN IF instr.opcode \in {"STORE_ATTR", "STORE_INDEX", "DELETE_INDEX",
                              "LOAD_ATTR", "IMPORT_FROM"}
         THEN unmodelled(vm)
         ELSE vm_raise(jump(vm, frame.ip + 1), Exc("IndexError", "pop from empty list"))
    ELSE dispatch(jump(vm, frame.ip + 1), frame.code, frame.env, frame.stack,
                  instr.opcode, instr.arg)

\* _execute_frame, one step: an instruction of the running frame, or its end.
vm_step(vm) ==
    IF top(vm).ip < Len(top(vm).code.instructions)
    THEN execute_instruction(vm, top(vm), top(vm).code.instructions[top(vm).ip + 1])
    ELSE frame_return(vm)

\* How a run of the machine ended.
VMOutcome(vm) == [out |-> vm.out, status |-> vm.status]

(***************************************************************************)
(*                     THE END-TO-END SUITE S1 - S6                        *)
(* The syntax trees kilat_parser.py builds for the six scenarios.  S5 and  *)
(* S6 do not parse: parse_try wants a type name before `sebagai`, and      *)
(* parse_block wants NEWLINE INDENT after the colon of a definition.       *)
(***************************************************************************)
S1 == ProgramNode(<< Cetak(<<StringNode("Salam, Dunia!")>>) >>)

S2 ==
    ProgramNode(<<
        Cetak(<<BinaryOpNode(Num(2), "+", BinaryOpNode(Num(3), "*", Num(4)))>>),
        Cetak(<<BinaryOpNode(Num(2), "**", BinaryOpNode(Num(3), "**", Num(2)))>>) >>)

S3 ==
    ProgramNode(<<
        AssignmentNode("a", ListNode(<<TupleNode(<<Num(1), StringNode("a")>>),
                                       TupleNode(<<Num(2), StringNode("b")>>)>>)),
        ForNode("i", <<"i", "v">>, Id("a"), <<Cetak(<<Id("i"), Id("v")>>)>>),
        Cetak(<<ListCompNode(BinaryOpNode(Id("x"), "*", Id("x")), "x",
                             Call("julat", <<Num(4)>>),
                             BinaryOpNode(BinaryOpNode(Id("x"), "%", Num(2)),
                                          "==", Num(0)))>>) >>)

S4 ==
    ProgramNode(<<
        FunctionDefNode("buat", <<"n">>, <<Num(10)>>, NoName, NoName, <<
            FunctionDefNode("dalaman", <<"x">>, <<>>, NoName, NoName, <<
                ReturnNode(BinaryOpNode(Id("x"), "+", Id("n"))) >>),
            ReturnNode(Id("dalaman")) >>),
        AssignmentNode("f", Call("buat", <<>>)),
        Cetak(<<Call("f", <<Num(5)>>)>>) >>)

\* A source the parser rejects: no tree, and no engine is started.
Unparsed == [t |-> "SyntaxError", statements |-> <<>>]

S5 == Unparsed

S6 == Unparsed

Suite == <<S1, S2, S3, S4, S5, S6>>

(***************************************************************************)
(*        COMPILING TO A .klc FILE AND LOADING IT (kilat.py main)          *)
(***************************************************************************)

\* fungsi f(a, b=5, *r, **k): a nested function and an if inside a function.
StmtDef ==
    FunctionDefNode("f", <<"a", "b">>, <<Num(5)>>, "r", "k",
        << FunctionDefNode("g", <<>>, <<>>, NoName, NoName, <<ReturnNode(Id("a"))>>),
           IfNode(Id("a"), <<ReturnNode(Id("g"))>>, <<>>) >>)

\* f(1, b=2)
StmtKwCall == FunctionCallNode("f", <<Num(1)>>, << <<"b", Num(2)>> >>)

\* x = 9223372036854775808
StmtBigInt == AssignmentNode("x", NumberNode(Val("bigint", <<0, 0, 0, 0, 0, 0, 0, 128>>)))

\* x = 4611686018427387904
StmtWideInt == AssignmentNode("x", NumberNode(Val("bigint", <<0, 0, 0, 0, 0, 0, 0, 64>>)))

\* cuba: bangkit "e" / tangkap Ralat sebagai e: lulus / tangkap: lulus / akhirnya: lulus
StmtTry ==
    TryNode(<<RaiseNode(StringNode("e"))>>,
            << <<"Ralat", "e", <<PassNode>> >>, <<NoName, NoName, <<PassNode>> >> >>,
            <<PassNode>>, 0)

\* cetak(1) on line 70001 of the source
StmtFarLine == AtLine(Cetak(<<Num(1)>>), 70001)

\* jika benar: lulus
StmtIf == IfNode(BooleanNode(TRUE), <<PassNode>>, <<>>)

\* selagi benar: berhenti
StmtWhile == WhileNode(BooleanNode(TRUE), <<BreakNode>>)

\* untuk i dalam [1]: lulus
StmtFor == ForNode("i", <<>>, ListNode(<<Num(1)>>), <<PassNode>>)

\* cetak(1.5, benar, tiada, 1, "1")
StmtConsts ==
    Cetak(<<NumberNode(FloatV("1.5")), BooleanNode(TRUE), NoneNode, Num(1),
            StringNode("1")>>)

StmtPool ==
    {StmtDef, StmtKwCall, StmtBigInt, StmtWideInt, StmtTry, StmtFarLine, StmtIf,
     StmtWhile, StmtFor, StmtConsts, BreakNode}

Programs == {ProgramNode(body) : body \in UNION {[1..n -> StmtPool] : n \in 0..MaxStmts}}

NoLoad == [code |-> CodeObject(""), error |-> ""]

CompileInit ==
    /\ cp_program \in Programs
    /\ cp_stage = "source"
    /\ cp_code = CodeObject("")
    /\ cp_file = NewBuf
    /\ cp_loaded = NoLoad

CompileIdle ==
    /\ cp_program = ProgramNode(<<>>)
    /\ cp_stage = "idle"
    /\ cp_code = CodeObject("")
    /\ cp_file = NewBuf
    /\ cp_loaded = NoLoad

\* compile_kilat(source): the module code object, or CompileError.
CompileBC ==
    /\ cp_stage = "source"
    /\ LET C == compile_program(cp_program)
       IN /\ cp_stage' = IF C.error # "" THEN "CompileError" ELSE "compiled"
          /\ cp_code' = C.code
    /\ UNCHANGED <<cp_program, cp_file, cp_loaded>>
    /\ UNCHANGED notCompile

\* f.write(serialize_code(code)): nothing is written when struct.pack raises.
WriteKlc ==
    /\ cp_stage = "compiled"
    /\ cp_file' = serialize_code(cp_code)
    /\ cp_stage' = IF cp_file'.error # "" THEN cp_file'.error ELSE "file"
    /\ UNCHANGED <<cp_program, cp_code, cp_loaded>>
    /\ UNCHANGED notCompile

\* deserialize_code(data) on the bytes of the file.
RunKlc ==
    /\ cp_stage = "file"
    /\ cp_loaded' = deserialize_code(cp_file.buf)
    /\ cp_stage' = "loaded"
    /\ UNCHANGED <<cp_program, cp_code, cp_file>>
    /\ UNCHANGED notCompile

CompileNext == CompileBC \/ WriteKlc \/ RunKlc

\* C3: for every code object the compiler produces, serialize_code succeeds
\* and deserialize_code of its bytes succeeds and returns a code object
\* structurally equal to it (name, parameters, var_args/kw_args, constants
\* with their kinds, names, instructions), nested code objects included.
C3_RoundTrip ==
    /\ cp_stage # "struct.error"
    /\ cp_stage = "loaded" => cp_loaded = [code |-> cp_code, error |-> ""]

JumpOps ==
    {"JUMP_ABSOLUTE", "JUMP_IF_FALSE", "JUMP_IF_TRUE", "JUMP_IF_FALSE_OR_POP",
     "JUMP_IF_TRUE_OR_POP", "FOR_ITER", "SETUP_TRY"}

RECURSIVE JumpTargetsExist(_)
JumpTargetsExist(code) ==
    /\ \A i \in 1..Len(code.instructions) :
          code.instructions[i].opcode \in JumpOps
             => /\ 0 <= code.instructions[i].arg
                /\ code.instructions[i].arg < Len(code.instructions)
    /\ \A i \in 1..Len(code.constants) :
          code.constants[i].k = "code" => JumpTargetsExist(code.constants[i].v)

\* C4: in every code object the compiler emits, the module's and those of
\* the functions nested in it, the arg of every jump-like instruction is
\* the index of an existing instruction: 0 <= arg < len(instructions).
C4_JumpTargetsInRange ==
    cp_stage \in {"compiled", "file", "loaded", "struct.error"}
       => JumpTargetsExist(cp_code)

(***************************************************************************)
(*      RUNNING A PROGRAM ON BOTH ENGINES (kilat.py --native, --bytecode)  *)
(* The programs are the suite and three families: closures over a          *)
(* rebound variable, cuba statements whose handlers print which of them    *)
(* ran, and cuba statements left in every way from inside a function and   *)
(* a loop.                                                                 *)
(***************************************************************************)
Say(s) == Cetak(<<StringNode(s)>>)

\* fungsi luar():            |  n = v1
\*     n = v1                |  fungsi baca():
\*     fungsi dalam():       |      kembali n
\*         kembali n         |  n = v2
\*     n = v2                |  cetak(baca())
\*     kembali dalam         |
\* f = luar()                |
\* cetak(f())                |
ClosureProgram(returned, v1, v2) ==
    IF returned
    THEN ProgramNode(<<
             FunctionDefNode("luar", <<>>, <<>>, NoName, NoName, <<
                 AssignmentNode("n", Num(v1)),
                 FunctionDefNode("dalam", <<>>, <<>>, NoName, NoName,
                                 <<ReturnNode(Id("n"))>>),
                 AssignmentNode("n", Num(v2)),
                 ReturnNode(Id("dalam")) >>),
             AssignmentNode("f", Call("luar", <<>>)),
             Cetak(<<Call("f", <<>>)>>) >>)
    ELSE ProgramNode(<<
             AssignmentNode("n", Num(v1)),
             FunctionDefNode("baca", <<>>, <<>>, NoName, NoName, <<ReturnNode(Id("n"))>>),
             AssignmentNode("n", Num(v2)),
             Cetak(<<Call("baca", <<>>)>>) >>)

ClosurePrograms ==
    { ClosureProgram(returned, v1, v2) :
        returned \in BOOLEAN, v1 \in 0..MaxValue, v2 \in 0..MaxValue }

\* Statements that end the body of a cuba statement in each way.
Bangkit == RaiseNode(StringNode("x"))

HostTypeError == AssignmentNode("y", BinaryOpNode(Num(1), "+", StringNode("a")))

DivZero == AssignmentNode("y", BinaryOpNode(Num(1), "/", Num(0)))

BadInt == AssignmentNode("y", Call("int", <<StringNode("abc")>>))

TryBodies == <<PassNode, Bangkit, HostTypeError, DivZero, BadInt>>

\* The type names of the handlers of a statement, NoName for `tangkap:`.
HandlerTypes ==
    << <<NoName>>, <<"Ralat">>, <<"Ralat", NoName>>, <<"TypeError", NoName>>,
       <<"Ralat", "Lain">>, <<NoName, "Ralat">> >>

\* cuba:                         the handlers print H1, H2, ...; the outer
\*     cuba:                     statement prints OUT when the exception
\*         cetak("B")            leaves the inner one.
\*         <body>
\*     tangkap <type>:
\*         cetak("H1")
\*     ...
\*     akhirnya:
\*         cetak("F")
\*     cetak("after")
\* tangkap:
\*     cetak("OUT")
\* cetak("E")
HandlerProgram(body, types, with_finally) ==
    ProgramNode(<<
        TryNode(<< TryNode(<<Say("B"), body>>,
                           [i \in 1..Len(types) |->
                               <<types[i], NoName, <<Say("H" \o IntStr(i))>> >>],
                           IF with_finally THEN <<Say("F")>> ELSE <<>>, 2),
                   Say("after") >>,
                << <<NoName, NoName, <<Say("OUT")>> >> >>, <<>>, 1),
        Say("E") >>)

HandlerPrograms ==
    { HandlerProgram(TryBodies[b], HandlerTypes[t], f) :
        b \in DOMAIN TryBodies, t \in DOMAIN HandlerTypes, f \in BOOLEAN }

\* fungsi f():                   the cuba statement is entered once per
\*     untuk i dalam [1, 2]:     iteration, and left by its body, by its
\*         cuba:                 handler or by akhirnya.
\*             <body>
\*         tangkap <type>:
\*             <handler>
\*         akhirnya:
\*             cetak("F")
\*         cetak("after")
\*     kembali 0
\* cuba:
\*     f()
\* tangkap:
\*     cetak("OUT")
LeaveProgram(body, clauses) ==
    ProgramNode(<<
        FunctionDefNode("f", <<>>, <<>>, NoName, NoName, <<
            ForNode("i", <<>>, ListNode(<<Num(1), Num(2)>>), <<
                TryNode(<<body>>, clauses, <<Say("F")>>, 3),
                Say("after") >>),
            ReturnNode(Num(0)) >>),
        TryNode(<<Cetak(<<Call("f", <<>>)>>)>>,
                << <<NoName, NoName, <<Say("OUT")>> >> >>, <<>>, 9) >>)

LeaveBodies ==
    {PassNode, Bangkit, HostTypeError, ReturnNode(Num(1)), BreakNode, ContinueNode}

LeaveHandlers == {Say("H"), Bangkit, ReturnNode(Num(2)), BreakNode, ContinueNode}

LeaveClauses ==
    {<<>>} \cup { << <<type, NoName, <<handler>> >> >> :
                     type \in {NoName, "Ralat"}, handler \in LeaveHandlers }

LeavePrograms == { LeaveProgram(body, clauses) : body \in LeaveBodies, clauses \in LeaveClauses }

\* g = v1                        the default of a calls d, which prints D
\* fungsi d():                   and reads g; g is rebound between the
\*     cetak("D")                definition of f and its call.
\*     kembali g
\* fungsi f(a=d()):
\*     cetak(a)
\* g = v2
\* f()            or f(7)
LazyProgram(v1, v2, supplied) ==
    ProgramNode(<<
        AssignmentNode("g", Num(v1)),
        FunctionDefNode("d", <<>>, <<>>, NoName, NoName,
                        <<Say("D"), ReturnNode(Id("g"))>>),
        FunctionDefNode("f", <<"a">>, <<Call("d", <<>>)>>, NoName, NoName,
                        <<Cetak(<<Id("a")>>)>>),
        AssignmentNode("g", Num(v2)),
        Call("f", IF supplied THEN <<Num(7)>> ELSE <<>>) >>)

\* fungsi f():                   f leaves a loop it is not in; the caller
\*     berhenti   (or teruskan)  calls it from the body of its own loop.
\* untuk i dalam [1, ..., n]:
\*     cetak("in")
\*     f()
\*     cetak("after")
\* cetak("end")
EscapeProgram(leave, n) ==
    ProgramNode(<<
        FunctionDefNode("f", <<>>, <<>>, NoName, NoName, <<leave>>),
        ForNode("i", <<>>, ListNode([j \in 1..n |-> Num(j)]),
                <<Say("in"), Call("f", <<>>), Say("after")>>),
        Say("end") >>)

\* cetak("a"); berhenti (or teruskan, or kembali 1); cetak("b") at module level.
ModuleLeaveProgram(leave) == ProgramNode(<<Say("a"), leave, Say("b")>>)

EscapePrograms ==
    { EscapeProgram(leave, n) : leave \in {BreakNode, ContinueNode}, n \in 1..MaxValue }
        \cup { ModuleLeaveProgram(leave) :
                  leave \in {BreakNode, ContinueNode, ReturnNode(Num(1))} }

RECURSIVE SeqsOf(_, _)
SeqsOf(S, n) ==
    IF n = 0 THEN {<<>>}
    ELSE { Append(s, x) : s \in SeqsOf(S, n - 1), x \in S }

\* `fungsi name(f): cetak("name"); kembali f`: a decorator that writes its
\* name when it is applied and gives back what it was given.
DecoratorDef(name) ==
    FunctionDefNode(name, <<"f">>, <<>>, NoName, NoName,
                    <<Say(name), ReturnNode(Id("f"))>>)

\* The definition decorated: `fungsi g(): cetak("g")`, or
\* `kelas K: fungsi m(self): kembali 1`.
DecoratedDef(kind, decorators) ==
    IF kind = "fungsi"
    THEN Decorated(FunctionDefNode("g", <<>>, <<>>, NoName, NoName, <<Say("g")>>),
                   decorators)
    ELSE ClassDefNode("K", NoName,
                      <<FunctionDefNode("m", <<"self">>, <<>>, NoName, NoName,
                                        <<ReturnNode(Num(1))>>)>>,
                      decorators)

\* d1 and d2 are defined, the definition follows under its decorators, and
\* then g is called, or K is written once the class is defined.
DecoratorProgram(kind, names) ==
    ProgramNode(<< DecoratorDef("d1"), DecoratorDef("d2"),
                   DecoratedDef(kind, [i \in 1..Len(names) |-> Id(names[i])]),
                   IF kind = "fungsi" THEN Call("g", <<>>) ELSE Say("K") >>)

DecoratorLists == UNION { SeqsOf({"d1", "d2"}, n) : n \in 0..MaxDecorators }

DecoratorPrograms ==
    { DecoratorProgram(kind, names) : kind \in {"fungsi", "kelas"}, names \in DecoratorLists }

\* fungsi f(k):                 with guarded:   cuba:
\*     jika k > 0:                                    f(n)
\*         f(k - 1)                               tangkap:
\*     kembali 0                                      cetak("caught")
\* f(n)
\* cetak("end")
RecurseProgram(n, guarded) ==
    ProgramNode(<<
        FunctionDefNode("f", <<"k">>, <<>>, NoName, NoName, <<
            IfNode(BinaryOpNode(Id("k"), ">", Num(0)),
                   <<Call("f", <<BinaryOpNode(Id("k"), "-", Num(1))>>)>>, <<>>),
            ReturnNode(Num(0)) >>),
        IF guarded
        THEN TryNode(<<Call("f", <<Num(n)>>)>>,
                     << <<NoName, NoName, <<Say("caught")>> >> >>, <<>>, 0)
        ELSE Call("f", <<Num(n)>>),
        Say("end") >>)

RecursePrograms ==
    { RecurseProgram(n, guarded) : n \in 0..MaxRecursion, guarded \in BOOLEAN }

\* cuba: stmt / tangkap: cetak(tag), or stmt alone.
Guard(guarded, stmt, tag, line) ==
    IF guarded
    THEN TryNode(<<stmt>>, << <<NoName, NoName, <<Say(tag)>> >> >>, <<>>, line)
    ELSE stmt

\* What raises in the innermost function: bangkit "x" (a Kilat exception), or
\* the read of a name that nothing defines (a runtime error).
Raisers == {RaiseNode(StringNode("x")), Id("u")}

\* fungsi g():  [cuba:] raiser [tangkap: cetak("g")]
\* fungsi f():  [cuba:] g()    [tangkap: cetak("f")]
\* [cuba:] f() [tangkap: cetak("m")]
\* cetak("end")
PropagateProgram(raiser, in_g, in_f, in_m) ==
    ProgramNode(<<
        FunctionDefNode("g", <<>>, <<>>, NoName, NoName, <<Guard(in_g, raiser, "g", 2)>>),
        FunctionDefNode("f", <<>>, <<>>, NoName, NoName,
                        <<Guard(in_f, Call("g", <<>>), "f", 4)>>),
        Guard(in_m, Call("f", <<>>), "m", 5),
        Say("end") >>)

PropagatePrograms ==
    { PropagateProgram(raiser, in_g, in_f, in_m) :
        raiser \in Raisers, in_g \in BOOLEAN, in_f \in BOOLEAN, in_m \in BOOLEAN }

\* fungsi g():
\*     bangkit "x"
\* untuk i dalam [1, ..., n]:
\*     cuba:
\*         cetak(1 + g())      (pending: cetak and 1 are on the stack when g
\*     tangkap:                 raises; otherwise the body is  bangkit "x")
\*         cetak("h")
\* cetak("end")
PendingProgram(pending, n) ==
    ProgramNode(<<
        FunctionDefNode("g", <<>>, <<>>, NoName, NoName, <<RaiseNode(StringNode("x"))>>),
        ForNode("i", <<>>, ListNode([j \in 1..n |-> Num(j)]),
                << TryNode(<< IF pending
                              THEN Cetak(<<BinaryOpNode(Num(1), "+", Call("g", <<>>))>>)
                              ELSE RaiseNode(StringNode("x")) >>,
                           << <<NoName, NoName, <<Say("h")>> >> >>, <<>>, 4) >>),
        Say("end") >>)

PendingPrograms ==
    { PendingProgram(pending, n) : pending \in BOOLEAN, n \in 1..MaxValue }

\* cuba:
\*     bangkit v
\* tangkap Ralat sebagai e:
\*     cetak(e)
\* cetak("end")
AliasProgram(v) ==
    ProgramNode(<<
        TryNode(<<RaiseNode(v)>>, << <<"Ralat", "e", <<Cetak(<<Id("e")>>)>> >> >>, <<>>, 1),
        Say("end") >>)

\* The values raised, and what cetak writes for each.
RaisedValues == {StringNode("x")} \cup { Num(n) : n \in 1..MaxValue }

Written(v) == IF v.t = "StringNode" THEN v.value.v ELSE IntStr(v.value.v)

AliasPrograms == { AliasProgram(v) : v \in RaisedValues }

\* A loop over var = 1, ..., n:  untuk var dalam [1, ..., n]: body,  or
\* var = 0; selagi var < n: var = var + 1; body.
LoopOver(kind, var, n, body) ==
    IF kind = "for"
    THEN <<ForNode(var, <<>>, ListNode([k \in 1..n |-> Num(k)]), body)>>
    ELSE <<AssignmentNode(var, Num(0)),
           WhileNode(BinaryOpNode(Id(var), "<", Num(n)),
                     <<AssignmentNode(var, BinaryOpNode(Id(var), "+", Num(1)))>> \o body)>>

\* berhenti or teruskan, written on source line 9 of the loop programs.
Leaves == {AtLine(BreakNode, 9), AtLine(ContinueNode, 9)}

\* <outer loop over i>:
\*     <inner loop over j>:
\*         jika j == 2:
\*             leave
\*         cetak(j)
\*     cetak("o")
\* cetak("end")
LoopProgram(outer, inner, leave, n) ==
    ProgramNode(
        LoopOver(outer, "i", n,
                 LoopOver(inner, "j", n,
                          <<IfNode(BinaryOpNode(Id("j"), "==", Num(2)), <<leave>>, <<>>),
                            Cetak(<<Id("j")>>)>>)
                    \o <<Say("o")>>)
           \o <<Say("end")>>)

LoopKinds == {"for", "while"}

LoopPrograms ==
    { LoopProgram(outer, inner, leave, n) :
        outer \in LoopKinds, inner \in LoopKinds, leave \in Leaves, n \in 1..MaxValue }

\* fungsi a():  cetak("a"); kembali va
\* fungsi b():  cetak("b"); kembali vb
\* r = a() op b()
\* cetak(r)
ShortProgram(op, va, vb) ==
    ProgramNode(<<
        FunctionDefNode("a", <<>>, <<>>, NoName, NoName, <<Say("a"), ReturnNode(va)>>),
        FunctionDefNode("b", <<>>, <<>>, NoName, NoName, <<Say("b"), ReturnNode(vb)>>),
        AssignmentNode("r", BinaryOpNode(Call("a", <<>>), op, Call("b", <<>>))),
        Cetak(<<Id("r")>>) >>)

\* The operands: falsy and truthy values of several kinds.
LeftOperands ==
    {Num(0), Num(1), StringNode(""), StringNode("s"), NoneNode, ListNode(<<>>)}

RightOperands == {Num(2), StringNode("")}

ShortOperators == {"dan", "atau_logik"}

ShortPrograms ==
    { ShortProgram(op, va, vb) :
        op \in ShortOperators, va \in LeftOperands, vb \in RightOperands }

\* The names of `dari math import n1, ..., nk`: pi, e, pi, ...
ImportedNames(k) == [i \in 1..k |-> IF i % 2 = 1 THEN "pi" ELSE "e"]

\* dari math import n1, ..., nk        untuk i dalam [1, 2]:
\* cetak("end")                            dari math import n1, ..., nk
\*                                         cetak(i)
\*                                     cetak("end")
\* The import statement is on source line 7.
ImportProgram(k, in_loop) ==
    ProgramNode(
        (IF in_loop
         THEN <<ForNode("i", <<>>, ListNode(<<Num(1), Num(2)>>),
                        <<FromImportNode("math", ImportedNames(k),
                                         [i \in 1..k |-> NoName], 7),
                          Cetak(<<Id("i")>>)>>)>>
         ELSE <<FromImportNode("math", ImportedNames(k), [i \in 1..k |-> NoName], 7)>>)
           \o <<Say("end")>>)

ImportPrograms ==
    { ImportProgram(k, in_loop) : k \in 1..MaxValue, in_loop \in BOOLEAN }

\* The body of a function that can finish without executing kembali.
\*   "if":     jika x: kembali 1
\*   "while":  selagi benar: (jika x > 0: berhenti); x = x + 1
\*   "for":    untuk i dalam [1, 2]: (jika i == x: berhenti)
\*   "try":    cuba: cetak("t")  tangkap: cetak("e")
NoReturnBody(kind) ==
    CASE kind = "if" -> <<IfNode(Id("x"), <<ReturnNode(Num(1))>>, <<>>)>>
      [] kind = "while" ->
            <<WhileNode(BooleanNode(TRUE),
                        <<IfNode(BinaryOpNode(Id("x"), ">", Num(0)), <<BreakNode>>, <<>>),
                          AssignmentNode("x", BinaryOpNode(Id("x"), "+", Num(1)))>>)>>
      [] kind = "for" ->
            <<ForNode("i", <<>>, ListNode(<<Num(1), Num(2)>>),
                      <<IfNode(BinaryOpNode(Id("i"), "==", Id("x")), <<BreakNode>>, <<>>)>>)>>
      [] kind = "try" ->
            <<TryNode(<<Say("t")>>, << <<NoName, NoName, <<Say("e")>> >> >>, <<>>, 1)>>

\* fungsi f(x): <body>
\* cetak(f(x))
\* cetak("end")
NoReturnProgram(kind, x) ==
    ProgramNode(<<
        FunctionDefNode("f", <<"x">>, <<>>, NoName, NoName, NoReturnBody(kind)),
        Cetak(<<Call("f", <<Num(x)>>)>>),
        Say("end") >>)

NoReturnKinds == {"if", "while", "for", "try"}

NoReturnPrograms ==
    { NoReturnProgram(kind, x) : kind \in NoReturnKinds, x \in 0..MaxValue }

\* <loop over i = 1, 2>:
\*     cuba:
\*         berhenti   (or teruskan)
\*     tangkap:
\*         cetak("H")
\* cetak("out")
\* bangkit "x"
\* cetak("end")
TryLeaveProgram(kind, leave) ==
    ProgramNode(
        LoopOver(kind, "i", 2, <<Guard(TRUE, leave, "H", 4)>>)
           \o <<Say("out"), Bangkit, Say("end")>>)

TryLeavePrograms ==
    { TryLeaveProgram(kind, leave) : kind \in LoopKinds, leave \in {BreakNode, ContinueNode} }

LazyPrograms ==
    { LazyProgram(v1, v2, supplied) :
        v1 \in 0..MaxValue, v2 \in 0..MaxValue, supplied \in BOOLEAN }

SuitePrograms == { Suite[i] : i \in DOMAIN Suite }

RunPrograms ==
    SuitePrograms \cup ClosurePrograms \cup HandlerPrograms \cup LeavePrograms
        \cup LazyPrograms \cup DecoratorPrograms \cup EscapePrograms
        \cup RecursePrograms \cup PropagatePrograms \cup PendingPrograms
        \cup AliasPrograms \cup LoopPrograms \cup ShortPrograms
        \cup ImportPrograms \cup NoReturnPrograms
        \cup TryLeavePrograms

NoRun == [out |-> <<>>, ev |-> <<>>, status |-> "none"]

NoVM == [frames |-> <<>>, envs |-> <<>>, out |-> <<>>, status |-> "none"]

RunInit ==
    /\ rn_program \in RunPrograms
    /\ rn_stage = "source"
    /\ rn_native = NoRun
    /\ rn_vm = NoVM

RunIdle ==
    /\ rn_program = ProgramNode(<<>>)
    /\ rn_stage = "idle"
    /\ rn_native = NoRun
    /\ rn_vm = NoVM

\* KilatParser.parse raises: neither engine is started, nothing is printed.
RejectSource ==
    /\ rn_stage = "source"
    /\ rn_program.t = "SyntaxError"
    /\ rn_native' = [NoRun EXCEPT !.status = "SyntaxError"]
    /\ rn_vm' = [NoVM EXCEPT !.status = "SyntaxError"]
    /\ rn_stage' = "done"
    /\ UNCHANGED rn_program
    /\ UNCHANGED notRun

\* kilat.py --native: run_kilat(source).
RunNative ==
    /\ rn_stage = "source"
    /\ rn_program.t = "ProgramNode"
    /\ rn_native' = interpret(rn_program)
    /\ rn_stage' = "native"
    /\ UNCHANGED <<rn_program, rn_vm>>
    /\ UNCHANGED notRun

\* The machine run_bytecode starts on the compiled module.
load_vm(C) ==
    IF C.error # "" THEN [NoVM EXCEPT !.status = "CompileError"] ELSE KilatVM(C.code)

\* kilat.py --bytecode: run_bytecode(source) up to the call of vm.run.
LoadVM ==
    /\ rn_stage = "native"
    /\ rn_vm' = load_vm(compile_program(rn_program))
    /\ rn_stage' = "bytecode"
    /\ UNCHANGED <<rn_program, rn_native>>
    /\ UNCHANGED notRun

\* One iteration of the dispatch loop of the running frame.
VMStep ==
    /\ rn_stage = "bytecode"
    /\ rn_vm.status = "running"
    /\ rn_vm' = vm_step(rn_vm)
    /\ UNCHANGED <<rn_program, rn_native, rn_stage>>
    /\ UNCHANGED notRun

RunNext == RejectSource \/ RunNative \/ LoadVM \/ VMStep

NativeDone == rn_stage \in {"native", "bytecode", "done"}

VMDone == rn_stage \in {"bytecode", "done"} /\ rn_vm.status # "running"

\* C2: every program of the suite S1-S6 writes the same standard output on
\* the tree interpreter (--native) and on the compiler and machine
\* (--bytecode).
C2_SuiteAgrees ==
    (rn_program \in SuitePrograms /\ NativeDone /\ VMDone) => rn_native.out = rn_vm.out

\* C5: a function reads a variable of its defining scope through a
\* reference to that scope: when the variable is rebound after the
\* definition, a later call returns the new value, for a function returned
\* from its defining function and for one defined at module level, on the
\* interpreter and on the machine.
C5_ClosureSeesRebinding ==
    \A returned \in BOOLEAN, v1, v2 \in 0..MaxValue :
        rn_program = ClosureProgram(returned, v1, v2)
           => /\ NativeDone => rn_native = [NoRun EXCEPT !.out = <<IntStr(v2)>>,
                                                         !.status = "exit0"]
              /\ VMDone => VMOutcome(rn_vm) = [out |-> <<IntStr(v2)>>, status |-> "exit0"]

C5_Witness ==
    /\ rn_program = ClosureProgram(TRUE, 1, 2)
    /\ VMDone
    /\ rn_native.out = <<"2">>
    /\ rn_vm.out = <<"2">>

\* The events of one cuba statement in order: entered, handlers tested, a
\* handler entered, akhirnya entered, left.  state is where control is.
RECURSIVE FinallyRunsOnce(_, _, _, _)
FinallyRunsOnce(ev, i, line, state) ==
    IF i > Len(ev) THEN state \in {"out", "finally"}
    ELSE IF ev[i].line # line THEN FinallyRunsOnce(ev, i + 1, line, state)
    ELSE CASE ev[i].e = "try" ->
                /\ state \in {"out", "finally"}
                /\ FinallyRunsOnce(ev, i + 1, line, "body")
           [] ev[i].e = "test" ->
                /\ state = "body"
                /\ FinallyRunsOnce(ev, i + 1, line, "body")
           [] ev[i].e = "handler" ->
                /\ state = "body"
                /\ FinallyRunsOnce(ev, i + 1, line, "handler")
           [] ev[i].e = "finally" ->
                /\ state \in {"body", "handler"}
                /\ FinallyRunsOnce(ev, i + 1, line, "finally")
           [] ev[i].e = "leave" ->
                /\ state = "finally"
                /\ FinallyRunsOnce(ev, i + 1, line, "out")

\* The lines of the cuba statements with an akhirnya body that were entered.
FinallyLines(ev) == { ev[i].line : i \in { j \in DOMAIN ev : ev[j].e = "try" /\ ev[j].i = 1 } }

\* C7: in the tree interpreter, each time a cuba statement with an akhirnya
\* body is entered, that body runs exactly once, after the body and the
\* handler (if one ran) and before control leaves the statement, however
\* the body or the handler ended.  The akhirnya bodies of the programs
\* print F, so F is printed once per entry.
C7_FinallyExactlyOnce ==
    NativeDone =>
        /\ \A line \in FinallyLines(rn_native.ev) :
              FinallyRunsOnce(rn_native.ev, 1, line, "out")
        /\ rn_program \in HandlerPrograms \cup LeavePrograms =>
              CountOf(rn_native.out, "F")
                 = Cardinality({ i \in DOMAIN rn_native.ev :
                                    rn_native.ev[i].e = "try" /\ rn_native.ev[i].i = 1 })

\* A handler raised, akhirnya ran and the exception reached the caller.
C7_Witness ==
    /\ NativeDone
    /\ rn_program \in LeavePrograms
    /\ rn_native.out = <<"F", "OUT">>
    /\ \E i \in DOMAIN rn_native.ev : rn_native.ev[i].e = "handler"

\* The handlers of the inner cuba statement of a handler program that
\* printed their mark.
HandlersRun(out, n) == { i \in 1..n : CountOf(out, "H" \o IntStr(i)) > 0 }

\* What C8 states about one finished run of a handler program.
FirstMatchRuns(program, out) ==
    LET inner == program.statements[1].try_body[1]
        body == inner.try_body[2]
        n == Len(inner.except_clauses)
        bangkit == body.t = "RaiseNode"
        matches(i) == inner.except_clauses[i][1] = NoName \/ bangkit
        ran == HandlersRun(out, n)
    IN IF body = PassNode THEN ran = {}
       ELSE /\ \A i \in 1..n : CountOf(out, "H" \o IntStr(i)) <= 1
            /\ Cardinality(ran) <= 1
            /\ \A d \in 1..n :
                  (matches(d) /\ \A j \in 1..(d - 1) : ~matches(j))
                     => \E j \in 1..d : ran = {j} /\ (j = d \/ ~matches(j))
            /\ ran = {} => (CountOf(out, "OUT") = 1 /\ CountOf(out, "after") = 0)

\* C8: when the body of a cuba statement raises, at most one handler runs,
\* the first that matches in source order (a handler without a type name
\* matches any exception, a handler with a type name matches every
\* bangkit-raised exception), and with no match the exception reaches the
\* enclosing cuba statement; on the interpreter and on the machine.
C8_FirstMatchingHandler ==
    rn_program \in HandlerPrograms =>
        /\ NativeDone => FirstMatchRuns(rn_program, rn_native.out)
        /\ VMDone => FirstMatchRuns(rn_program, rn_vm.out)

\* What a lazily evaluated default makes the program print.
LazyOutput(v2, supplied) == IF supplied THEN <<"7">> ELSE <<"D", IntStr(v2)>>

\* C11: a parameter default is evaluated at each call that leaves the
\* parameter unbound, in the defining scope as it then is, and neither at
\* definition time nor when the argument is supplied: the program prints D
\* and the rebound value when f is called without argument, and only the
\* argument when one is supplied, on the interpreter and on the machine.
C11_DefaultsLazy ==
    \A v1, v2 \in 0..MaxValue, supplied \in BOOLEAN :
        rn_program = LazyProgram(v1, v2, supplied)
           => /\ NativeDone => rn_native.out = LazyOutput(v2, supplied)
              /\ VMDone => rn_vm.out = LazyOutput(v2, supplied)

\* The names the decorators write, the one nearest the definition first,
\* and then what the last statement writes.
DecoratorOutput(kind, names) ==
    [i \in 1..Len(names) |-> names[Len(names) + 1 - i]]
        \o <<IF kind = "fungsi" THEN "g" ELSE "K">>

\* C17: a function or class definition under the decorators d1 ... dn binds
\* its name to d1(d2(...dn(definition))): the decorators are applied from
\* the one nearest the definition outwards, each once, and a user-defined
\* function is accepted as decorator of a function and of a class, on the
\* interpreter and in the compiled code.
C17_DecoratorsInnermostFirst ==
    \A kind \in {"fungsi", "kelas"}, names \in DecoratorLists :
        rn_program = DecoratorProgram(kind, names)
           => /\ NativeDone => /\ rn_native.status = "exit0"
                               /\ rn_native.out = DecoratorOutput(kind, names)
              /\ VMDone => /\ rn_vm.status = "exit0"
                           /\ rn_vm.out = DecoratorOutput(kind, names)

\* C18: in the interpreter a berhenti or teruskan executed with no loop
\* around it in the current function body or module, and a kembali executed
\* outside any function, ends in a runtime error; a berhenti or teruskan in
\* the body of a called function neither ends nor continues the loop of the
\* caller, so the caller's loop body is entered once and not completed.
C18_LeaveOutsideIsError ==
    /\ \A leave \in {BreakNode, ContinueNode}, n \in 1..MaxValue :
          (rn_program = EscapeProgram(leave, n) /\ NativeDone)
             => /\ rn_native.status = "KilatRuntimeError"
                /\ rn_native.out = <<"in">>
    /\ \A leave \in {BreakNode, ContinueNode, ReturnNode(Num(1))} :
          (rn_program = ModuleLeaveProgram(leave) /\ NativeDone)
             => /\ rn_native.status = "KilatRuntimeError"
                /\ rn_native.out = <<"a">>

\* C21: the machine bounds the depth of nested frames: whatever maximum
\* depth D it is configured with, no run has more than D frames active at
\* once, and the call that would make the frames more than D fails with a
\* runtime error, which a handler catches and which otherwise ends the run
\* as KilatRuntimeError.  f(n) needs the module frame and n + 1 frames of f.
C21_FrameDepthBounded ==
    \A D \in 1..MaxRecursion, n \in 0..MaxRecursion, guarded \in BOOLEAN :
        (rn_program = RecurseProgram(n, guarded) /\ rn_stage = "bytecode")
           => /\ Len(rn_vm.frames) <= D
              /\ (VMDone /\ n + 2 > D)
                    => IF guarded
                       THEN rn_vm.status = "exit0" /\ rn_vm.out = <<"caught", "end">>
                       ELSE rn_vm.status = "KilatRuntimeError" /\ rn_vm.out = <<>>

\* The instruction the running frame executes next.
NextInstruction(vm) == top(vm).code.instructions[top(vm).ip + 1]

\* The next instruction of the running frame raises an exception of class k:
\* RAISE raises KilatException, LOAD_NAME of a name no scope binds raises
\* KilatRuntimeError.
Raises(vm, k) ==
    /\ vm.status = "running"
    /\ top(vm).ip < Len(top(vm).code.instructions)
    /\ \/ /\ k = "KilatException"
          /\ NextInstruction(vm).opcode = "RAISE"
          /\ top(vm).stack # <<>>
       \/ /\ k = "KilatRuntimeError"
          /\ NextInstruction(vm).opcode = "LOAD_NAME"
          /\ ~env_has(vm.envs, top(vm).env,
                      top(vm).code.names[NextInstruction(vm).arg + 1])

\* The frames that have a handler installed.
Guarded(vm) == { i \in 1..Len(vm.frames) : vm.frames[i].try_stack # <<>> }

\* From vm, an exception of class k raised in the running frame has been
\* dispatched, and after is the machine.
Dispatched(vm, after, k) ==
    IF Guarded(vm) = {}
    THEN /\ after.status = k
         /\ after.frames = <<>>
         /\ after.out = vm.out
    ELSE \E h \in Guarded(vm) :
            /\ \A i \in Guarded(vm) : i <= h
            /\ after.status = "running"
            /\ Len(after.frames) = h
            /\ \A i \in 1..(h - 1) : after.frames[i] = vm.frames[i]
            /\ after.frames[h].try_stack = Front(vm.frames[h].try_stack)
            /\ after.frames[h].ip = Last(vm.frames[h].try_stack)
            /\ after.frames[h].current_exception.k = k
            /\ k = "KilatException"
                  => after.frames[h].current_exception.v = Last(top(vm).stack)
            /\ after.frames[h].code = vm.frames[h].code
            /\ after.frames[h].env = vm.frames[h].env
            /\ after.out = vm.out

\* C22: when an instruction raises a Kilat exception or a runtime error in
\* a frame of the machine, the innermost frame whose try-stack is not empty
\* (the running frame, else its caller, and so on) has the top handler
\* address popped, the exception stored in its current-exception slot and
\* its execution resumed at exactly that address, the frames above it
\* being left; with no handler in any frame the run ends with the status
\* of the exception (exit status 1) and nothing more written.
C22_ExceptionDispatch ==
    [][ \A k \in {"KilatException", "KilatRuntimeError"} :
           (rn_stage = "bytecode" /\ Raises(rn_vm, k)) => Dispatched(rn_vm, rn_vm', k)
      ]_vars

\* bangkit "x" two calls below the module, whose handler alone is
\* installed: the module frame is the only one left and holds the exception.
C22_Witness ==
    /\ rn_program = PropagateProgram(RaiseNode(StringNode("x")), FALSE, FALSE, TRUE)
    /\ rn_stage = "bytecode"
    /\ rn_vm.status = "running"
    /\ Len(rn_vm.frames) = 1
    /\ rn_vm.frames[1].current_exception.k = "KilatException"
    /\ rn_vm.frames[1].current_exception.v = StrV("x")
    /\ rn_vm.frames[1].try_stack = <<>>

\* The handler address of the one try statement of a code object.
HandlerAddress(code) ==
    Only({ code.instructions[i].arg :
             i \in { i \in 1..Len(code.instructions) :
                        code.instructions[i].opcode = "SETUP_TRY" } })

\* The module frame stands at the first instruction of its handler.
AtHandler(vm) ==
    /\ vm.status = "running"
    /\ Len(vm.frames) = 1
    /\ vm.frames[1].ip = HandlerAddress(vm.frames[1].code)

\* C23: when the machine transfers control to a handler, the operand stack
\* of the frame is cut back to the depth it had at SETUP_TRY, so what the
\* try body pushed is gone; in a for-loop around the try statement that
\* depth is one, the iterator of the loop, which the next FOR_ITER finds on
\* top: every iteration runs the handler and the loop ends normally.
C23_HandlerStackTruncated ==
    \A pending \in BOOLEAN, n \in 1..MaxValue :
        (rn_program = PendingProgram(pending, n) /\ rn_stage = "bytecode")
           => /\ AtHandler(rn_vm)
                    => /\ Len(rn_vm.frames[1].stack) = 1
                       /\ rn_vm.frames[1].stack[1].k = "iter"
              /\ VMDone => /\ rn_vm.status = "exit0"
                           /\ rn_vm.out = [i \in 1..n |-> "h"] \o <<"end">>

\* C27: when a handler with alias e matches an exception raised by
\* `bangkit v`, reading e in the handler body yields v, on the interpreter
\* and on the VM alike: `cetak(e)` writes v on both.
C27_AliasIsRaisedValue ==
    \A v \in RaisedValues :
        rn_program = AliasProgram(v)
           => /\ NativeDone => rn_native.out = <<Written(v), "end">>
              /\ VMDone => rn_vm.out = <<Written(v), "end">>

\* The instruction of a code object at address a (addresses count from 0).
InstructionAt(code, a) == code.instructions[a + 1]

\* The instructions berhenti and teruskan were compiled to carry line 9.
IsLeave(ins) == ins.line = 9

\* The loops of a code object: <<start, end>> where `end` is the address of
\* the jump that closes the loop body and `start` the address it goes back to.
LoopsOf(code) ==
    { <<InstructionAt(code, e).arg, e>> :
        e \in { a \in 0..(Len(code.instructions) - 1) :
                  /\ InstructionAt(code, a).opcode = "JUMP_ABSOLUTE"
                  /\ ~IsLeave(InstructionAt(code, a))
                  /\ InstructionAt(code, a).arg <= a } }

\* The loops around address a, and the innermost of them.
Enclosing(code, a) == { L \in LoopsOf(code) : L[1] <= a /\ a <= L[2] }

Innermost(code, a) ==
    CHOOSE L \in Enclosing(code, a) : \A M \in Enclosing(code, a) : M[1] <= L[1]

\* A for-loop starts at its FOR_ITER.
IsForLoop(code, L) == InstructionAt(code, L[1]).opcode = "FOR_ITER"

\* The operand stack holds one iterator for each of the for-loops, nothing else.
HoldsIterators(stack, loops, code) ==
    /\ Len(stack) = Cardinality({ L \in loops : IsForLoop(code, L) })
    /\ \A i \in 1..Len(stack) : stack[i].k = "iter"

\* What a loop program writes: in each of the n rounds of the outer loop the
\* inner loop writes j up to the berhenti at 2, or every j but 2 with
\* teruskan, and then the outer loop writes o.
RECURSIVE Rounds(_, _)
Rounds(n, round) == IF n = 0 THEN <<>> ELSE round \o Rounds(n - 1, round)

LoopOutput(leave, n) ==
    Rounds(n, (IF leave.t = "BreakNode"
               THEN <<"1">>
               ELSE SelectSeq([j \in 1..n |-> IntStr(j)], LAMBDA x : x # "2"))
              \o <<"o">>)
       \o <<"end">>

\* The step the machine takes from `vm` to `after` when the next instruction
\* of the module frame belongs to the berhenti or teruskan of the program.
LeaveStep(vm, after, f, ins, is_break) ==
    /\ after.status = "running"
    /\ Len(after.frames) = 1
    /\ Enclosing(f.code, f.ip) # {}
    /\ IF ins.opcode = "POP_TOP"
       THEN /\ is_break
            /\ IsForLoop(f.code, Innermost(f.code, f.ip))
            /\ HoldsIterators(f.stack, Enclosing(f.code, f.ip), f.code)
            /\ after.frames[1].stack = Front(f.stack)
            /\ after.frames[1].ip = f.ip + 1
            /\ InstructionAt(f.code, f.ip + 1).opcode = "JUMP_ABSOLUTE"
            /\ IsLeave(InstructionAt(f.code, f.ip + 1))
       ELSE /\ ins.opcode = "JUMP_ABSOLUTE"
            /\ after.frames[1].stack = f.stack
            /\ IF is_break
               THEN /\ after.frames[1].ip = Innermost(f.code, f.ip)[2] + 1
                    /\ HoldsIterators(f.stack,
                                      Enclosing(f.code, f.ip) \ {Innermost(f.code, f.ip)},
                                      f.code)
               ELSE /\ after.frames[1].ip = Innermost(f.code, f.ip)[1]
                    /\ HoldsIterators(f.stack, Enclosing(f.code, f.ip), f.code)

\* C30: in compiled code berhenti goes to the first instruction after the
\* innermost enclosing loop, after removing that loop's iterator from the
\* operand stack when it is a for-loop; teruskan goes to the start of the
\* innermost enclosing loop (the condition of a while, the FOR_ITER of a
\* for); the iterators of the loops further out stay on the stack and those
\* loops keep iterating, so the program writes every round of the outer loop.
C30_LeaveInnermostLoop ==
    [][ \A outer \in LoopKinds, inner \in LoopKinds, leave \in Leaves, n \in 1..MaxValue :
           (/\ rn_program = LoopProgram(outer, inner, leave, n)
            /\ rn_stage = "bytecode"
            /\ rn_vm.status = "running")
              => /\ (/\ rn_vm.frames[1].ip < Len(rn_vm.frames[1].code.instructions)
                     /\ IsLeave(NextInstruction(rn_vm)))
                    => LeaveStep(rn_vm, rn_vm', rn_vm.frames[1], NextInstruction(rn_vm),
                                 leave.t = "BreakNode")
                 /\ rn_vm'.status # "running"
                    => /\ rn_vm'.status = "exit0"
                       /\ rn_vm'.out = LoopOutput(leave, n)
      ]_vars

\* berhenti has just left the inner for-loop of a for-loop: the machine
\* stands behind the inner loop with the outer iterator alone on the stack.
C30_Witness ==
    /\ rn_program = LoopProgram("for", "for", AtLine(BreakNode, 9), 2)
    /\ rn_stage = "bytecode"
    /\ rn_vm.status = "running"
    /\ rn_vm.out = <<"1">>
    /\ Len(rn_vm.frames[1].stack) = 1
    /\ rn_vm.frames[1].ip > 0
    /\ InstructionAt(rn_vm.frames[1].code, rn_vm.frames[1].ip - 1).opcode = "JUMP_ABSOLUTE"
    /\ ~IsLeave(InstructionAt(rn_vm.frames[1].code, rn_vm.frames[1].ip - 1))
    /\ Innermost(rn_vm.frames[1].code, rn_vm.frames[1].ip - 1)[1] > 2

\* The value a literal operand denotes.
Denoted(node) ==
    CASE node.t = "NoneNode" -> NoneV
      [] node.t = "ListNode" -> ListV(<<>>)
      [] OTHER -> node.value

\* `a dan b` stops at a falsy a, `a atau_logik b` at a truthy a.
StopsAtLeft(op, va) == (op = "dan") = ~PyTruth(Denoted(va))

\* What a short-circuit program writes: a, then b when b is evaluated, then
\* the value of the operand the operation stopped at.
ShortOutput(op, va, vb) ==
    IF StopsAtLeft(op, va) THEN <<"a", PyStr(Denoted(va))>>
    ELSE <<"a", "b", PyStr(Denoted(vb))>>

\* The address the short-circuit jump of a code object goes to.
ShortTarget(code) ==
    Only({ code.instructions[i].arg :
             i \in { i \in 1..Len(code.instructions) :
                        code.instructions[i].opcode
                           \in {"JUMP_IF_FALSE_OR_POP", "JUMP_IF_TRUE_OR_POP"} } })

\* The machine stands behind the compiled operation with exactly the value
\* `v` on its operand stack.
LeftOnStack(vm, v) ==
    /\ Len(vm.frames[1].stack) = 1
    /\ vm.frames[1].stack[1].k = v.k
    /\ vm.frames[1].stack[1].v = v.v

BehindOperation(vm) ==
    /\ vm.status = "running"
    /\ Len(vm.frames) = 1
    /\ vm.frames[1].ip = ShortTarget(vm.frames[1].code)

\* C31: `a dan b` and `a atau_logik b` short-circuit alike on both engines:
\* a is evaluated once; when a is falsy (dan) or truthy (atau_logik) the
\* result is the value of a and b is not evaluated, otherwise the result is
\* the value of b; and the machine leaves exactly one value on the stack.
C31_ShortCircuit ==
    \A op \in ShortOperators, va \in LeftOperands, vb \in RightOperands :
        rn_program = ShortProgram(op, va, vb)
           => /\ NativeDone => /\ rn_native.status = "exit0"
                               /\ rn_native.out = ShortOutput(op, va, vb)
              /\ VMDone => /\ rn_vm.status = "exit0"
                           /\ rn_vm.out = ShortOutput(op, va, vb)
              /\ (rn_stage = "bytecode" /\ BehindOperation(rn_vm))
                    => LeftOnStack(rn_vm, IF StopsAtLeft(op, va)
                                          THEN Denoted(va) ELSE Denoted(vb))

\* `a() dan b()` with a() = 0 has just stopped at a on the machine: a was
\* written, b was not, and 0 alone is on the stack.
C31_Witness ==
    /\ rn_program = ShortProgram("dan", Num(0), Num(2))
    /\ rn_stage = "bytecode"
    /\ BehindOperation(rn_vm)
    /\ rn_vm.out = <<"a">>
    /\ LeftOnStack(rn_vm, IntV(0))
    /\ rn_native.out = <<"a", "0">>

\* The address behind the compiled import statement: behind the last
\* instruction that carries its line.
AfterImport(code) ==
    Only({ a \in 1..Len(code.instructions) :
             /\ code.instructions[a].line = 7
             /\ \A b \in (a + 1)..Len(code.instructions) : code.instructions[b].line # 7 })

\* C32: a compiled statement that completes normally leaves the operand
\* stack as deep as it found it: when `dari m import n1, ..., nk` has run,
\* the module IMPORT_MODULE pushed is gone and the depth is what it was
\* before the statement, none at module level and the one iterator inside a
\* for-loop; so the program runs to its end as on the interpreter.
C32_ImportLeavesStack ==
    \A k \in 1..MaxValue, in_loop \in BOOLEAN :
        (rn_program = ImportProgram(k, in_loop) /\ rn_stage = "bytecode")
           => /\ (/\ rn_vm.status = "running"
                  /\ Len(rn_vm.frames) = 1
                  /\ rn_vm.frames[1].ip = AfterImport(rn_vm.frames[1].code))
                    => Len(rn_vm.frames[1].stack) = (IF in_loop THEN 1 ELSE 0)
              /\ VMDone => /\ rn_vm.status = "exit0"
                           /\ rn_vm.out = rn_native.out

\* The opcodes whose argument is an instruction address.
JumpOpcodes ==
    {"JUMP_ABSOLUTE", "JUMP_IF_FALSE", "JUMP_IF_TRUE", "JUMP_IF_FALSE_OR_POP",
     "JUMP_IF_TRUE_OR_POP", "FOR_ITER", "SETUP_TRY"}

\* The last instruction of the code object is RETURN_VALUE and every jump
\* goes to an instruction of the code object, so that control never runs
\* off the end.
SelfConsistent(code) ==
    /\ code.instructions # <<>>
    /\ Last(code.instructions).opcode = "RETURN_VALUE"
    /\ \A a \in 0..(Len(code.instructions) - 1) :
           InstructionAt(code, a).opcode \in JumpOpcodes
              => InstructionAt(code, a).arg \in 0..(Len(code.instructions) - 1)

\* Every code object in the constants of `code`, at any depth, is
\* self-consistent.
RECURSIVE NestedSelfConsistent(_)
NestedSelfConsistent(code) ==
    \A i \in DOMAIN code.constants :
        code.constants[i].k = "code"
           => /\ SelfConsistent(code.constants[i].v)
              /\ NestedSelfConsistent(code.constants[i].v)

\* f(x) returns without executing kembali.
FallsOff(kind, x) == kind # "if" \/ x = 0

\* What NoReturnProgram(kind, x) writes.
NoReturnOutput(kind, x) ==
    (IF kind = "try" THEN <<"t">> ELSE <<>>)
        \o <<IF FallsOff(kind, x) THEN "None" ELSE "1", "end">>

C34_FinallyOnEveryExit ==
    VMDone =>
        /\ \A b \in DOMAIN TryBodies, t \in DOMAIN HandlerTypes :
              rn_program = HandlerProgram(TryBodies[b], HandlerTypes[t], TRUE)
                 => CountOf(rn_vm.out, "F") = CountOf(rn_vm.out, "B")
        /\ rn_program \in LeavePrograms => CountOf(rn_vm.out, "F") >= 1

\* What a leave program writes when the signal of its body takes effect in
\* the enclosing function or loop and no handler runs.
SignalOutput(body) ==
    CASE body = ReturnNode(Num(1)) -> <<"F", "1">>
      [] body = BreakNode -> <<"F", "0">>
      [] body = ContinueNode -> <<"F", "F", "0">>

\* C35: in the interpreter kembali, berhenti and teruskan executed in the
\* body of a cuba statement are not exceptions for that statement: no
\* tangkap handler runs, akhirnya runs, and then the return, break or
\* continue takes effect in the enclosing function or loop.
C35_SignalsPassHandlers ==
    \A body \in {ReturnNode(Num(1)), BreakNode, ContinueNode}, clauses \in LeaveClauses :
        (rn_program = LeaveProgram(body, clauses) /\ NativeDone)
           => rn_native.out = SignalOutput(body)

\* The number of try bodies of the code object that enclose address a: the
\* SETUP_TRY instructions before a whose POP_TRY is not before a.
TryDepth(code, a) ==
    Cardinality({ b \in 0..(a - 1) : InstructionAt(code, b).opcode = "SETUP_TRY" })
        - Cardinality({ b \in 0..(a - 1) : InstructionAt(code, b).opcode = "POP_TRY" })

\* C36: while the machine runs compiled code, the try-stack of the running
\* frame is as deep as the number of try bodies that enclose the next
\* instruction; so after berhenti or teruskan has left a try body inside a
\* loop, an exception raised outside any try is not given to its handler.
C36_TryStackBalanced ==
    /\ (rn_stage = "bytecode" /\ rn_vm.status = "running" /\ rn_vm.frames # <<>>)
          => Len(top(rn_vm).try_stack) = TryDepth(top(rn_vm).code, top(rn_vm).ip)
    /\ (rn_program \in TryLeavePrograms /\ VMDone) => CountOf(rn_vm.out, "H") = 0

\* The opcodes with a branch in the if/elif chain of KilatVM._execute_frame.
DispatchedOpcodes ==
    {"AUG_ADD", "AUG_DIV", "AUG_FLOOR_DIV", "AUG_MOD", "AUG_MUL", "AUG_POW",
     "AUG_SUB", "BINARY_ADD", "BINARY_DIV", "BINARY_FLOOR_DIV", "BINARY_MOD",
     "BINARY_MUL", "BINARY_POW", "BINARY_SUB", "BREAK_LOOP", "BUILD_DICT",
     "BUILD_FSTRING", "BUILD_LIST", "CALL_FUNCTION", "CALL_FUNCTION_KW",
     "COMPARE_EQ", "COMPARE_GE", "COMPARE_GT", "COMPARE_IN", "COMPARE_IS",
     "COMPARE_LE", "COMPARE_LT", "COMPARE_NE", "CONTINUE_LOOP", "DECLARE_GLOBAL",
     "DELETE_INDEX", "DELETE_NAME", "DUP_TOP", "END_FINALLY", "FOR_ITER",
     "GET_ITER", "IMPORT_FROM", "IMPORT_MODULE", "JUMP_ABSOLUTE",
     "JUMP_IF_FALSE", "JUMP_IF_FALSE_OR_POP", "JUMP_IF_TRUE",
     "JUMP_IF_TRUE_OR_POP", "LOAD_ATTR", "LOAD_CONST", "LOAD_GLOBAL",
     "LOAD_INDEX", "LOAD_NAME", "MAKE_CLASS", "MAKE_FUNCTION", "MATCH_EXCEPTION",
     "NOP", "POP_TOP", "POP_TRY", "RAISE", "RETURN_VALUE", "ROT_TWO",
     "SETUP_TRY", "STORE_ATTR", "STORE_GLOBAL", "STORE_INDEX", "STORE_NAME",
     "STORE_NAME_DEFINE", "UNARY_NEG", "UNARY_NOT", "UNARY_POS"}

\* C37: the machine never comes to execute an instruction whose opcode has
\* no branch in _execute_frame, whatever compiled program it runs.
C37_EveryOpcodeDispatched ==
    (/\ rn_stage = "bytecode"
     /\ rn_vm.status = "running"
     /\ rn_vm.frames # <<>>
     /\ top(rn_vm).ip < Len(top(rn_vm).code.instructions))
        => NextInstruction(rn_vm).opcode \in DispatchedOpcodes

(***************************************************************************)
(*     CALLING A USER FUNCTION (KilatFunction.call, _call_vm_function)     *)
(* A function f is defined by each engine from the same definition, then   *)
(* called by each with the same positional and keyword arguments.  The     *)
(* body prints "body", so the output tells whether the body ran.           *)
(***************************************************************************)
ParamName(i) == SubSeq("abcdefgh", i, i)

\* Default expressions: a literal, and a name that is not defined.
DefaultChoices == {Num(5), Id("u")}

\* fungsi f(a, b=<default>, *r, **k): cetak("body")
Definitions ==
    { FunctionDefNode("f", [i \in 1..n |-> ParamName(i)], defaults, var_args, kw_args,
                      <<Say("body")>>) :
        n \in 0..MaxParams,
        defaults \in UNION { SeqsOf(DefaultChoices, d) : d \in 0..MaxParams },
        var_args \in {NoName, "r"}, kw_args \in {NoName, "k"} }

WellFormed(def) == Len(def.defaults) <= Len(def.parameters)

\* The positional arguments 11, 12, ... of a call.
ArgLists == { [i \in 1..n |-> IntV(10 + i)] : n \in 0..MaxArgs }

\* The keyword names of a call: parameter names and z, which names none.
KwNames == [i \in 1..(MaxParams + 1) |-> IF i <= MaxParams THEN ParamName(i) ELSE "z"]

RECURSIVE KwList(_, _)
KwList(chosen, i) ==
    IF i > Len(KwNames) THEN <<>>
    ELSE (IF i \in chosen THEN << <<KwNames[i], IntV(20 + i)>> >> ELSE <<>>)
            \o KwList(chosen, i + 1)

\* The keyword arguments of a call, in source order.
KwLists == { KwList(chosen, 1) : chosen \in SUBSET DOMAIN KwNames }

NoBindings == [name \in {} |-> NoneV]

NoCall == [error |-> "", out |-> <<>>, bindings |-> NoBindings, called |-> FALSE]

CallInit ==
    /\ cl_def \in { def \in Definitions : WellFormed(def) }
    /\ cl_stage = "source"
    /\ cl_st = StartState
    /\ cl_vm = NoVM
    /\ cl_call = [args |-> <<>>, kwargs |-> <<>>]
    /\ cl_native = NoCall
    /\ cl_bytecode = NoCall

CallIdle ==
    /\ cl_def = NoNode
    /\ cl_stage = "idle"
    /\ cl_st = StartState
    /\ cl_vm = NoVM
    /\ cl_call = [args |-> <<>>, kwargs |-> <<>>]
    /\ cl_native = NoCall
    /\ cl_bytecode = NoCall

\* The interpreter executes the definition.
DefineNative ==
    /\ cl_stage = "source"
    /\ cl_st' = exec_block(<<cl_def>>, 1, StartState).st
    /\ cl_stage' = "native defined"
    /\ UNCHANGED <<cl_def, cl_vm, cl_call, cl_native, cl_bytecode>>
    /\ UNCHANGED notCall

\* The definition is compiled and a machine is started on the module.
LoadDefinition ==
    /\ cl_stage = "native defined"
    /\ cl_vm' = load_vm(compile_program(ProgramNode(<<cl_def>>)))
    /\ cl_stage' = "loaded"
    /\ UNCHANGED <<cl_def, cl_st, cl_call, cl_native, cl_bytecode>>
    /\ UNCHANGED notCall

\* The machine executes the definition: defaults, MAKE_FUNCTION, store.
DefineStep ==
    /\ cl_stage = "loaded"
    /\ cl_vm.status = "running"
    /\ cl_vm' = vm_step(cl_vm)
    /\ UNCHANGED <<cl_def, cl_stage, cl_st, cl_call, cl_native, cl_bytecode>>
    /\ UNCHANGED notCall

\* What a call did: b is the binding part, c the whole call.
native_result(b, c) ==
    [error |-> IF c.ok THEN "" ELSE c.val.k,
     out |-> c.st.out,
     bindings |-> IF b.ok THEN b.st.envs[b.val].variables ELSE NoBindings,
     called |-> TRUE]

\* KilatFunction.call(interpreter, arguments, keyword_args) on f.
CallNative ==
    /\ cl_stage = "loaded"
    /\ cl_vm.status # "running"
    /\ \E args \in ArgLists, kwargs \in KwLists :
          /\ cl_call' = [args |-> args, kwargs |-> kwargs]
          /\ cl_native' =
                native_result(
                    bind_arguments(env_get(cl_st.envs, 1, "f").v, args, kwargs, cl_st),
                    KilatFunction_call(env_get(cl_st.envs, 1, "f").v, args, kwargs, cl_st))
    /\ cl_stage' = "native called"
    /\ UNCHANGED <<cl_def, cl_st, cl_vm, cl_bytecode>>
    /\ UNCHANGED notCall

\* The machine after _call_vm_function bound the arguments: the frame of
\* the body is the running frame, or the error was raised in the caller.
vm_result(vm) ==
    [error |-> IF vm.status = "running" THEN "" ELSE vm.status,
     out |-> vm.out,
     bindings |-> IF vm.status = "running" THEN vm.envs[top(vm).env].variables
                  ELSE NoBindings,
     called |-> TRUE]

\* The module frame that calls f once the definition is executed.
Caller(vm) ==
    [vm EXCEPT !.frames = <<Frame(CodeObject("<kilat>"), 1)>>, !.status = "running"]

\* KilatVM._call_vm_function(func, args, kwargs, instr) on f, when the
\* machine could define it.
CallVM ==
    /\ cl_stage = "native called"
    /\ cl_bytecode' =
          IF cl_vm.status = "exit0"
          THEN vm_result(_call_vm_function(Caller(cl_vm), env_get(cl_vm.envs, 1, "f").v,
                                           cl_call.args, cl_call.kwargs))
          ELSE [NoCall EXCEPT !.error = cl_vm.status]
    /\ cl_stage' = "done"
    /\ UNCHANGED <<cl_def, cl_st, cl_vm, cl_call, cl_native>>
    /\ UNCHANGED notCall

CallNext == DefineNative \/ LoadDefinition \/ DefineStep \/ CallNative \/ CallVM

Range(s) == { s[i] : i \in DOMAIN s }

\* (a) more positional arguments than parameters and no *args parameter.
TooManyPositionals(def, call) ==
    def.var_args = NoName /\ Len(call.args) > Len(def.parameters)

\* (b) a keyword argument names no parameter and there is no **kwargs.
UnknownKeyword(def, call) ==
    /\ def.kw_args = NoName
    /\ \E i \in DOMAIN call.kwargs : call.kwargs[i][1] \notin Range(def.parameters)

\* Parameter i gets no positional and no keyword argument.
LeftUnbound(def, call, i) ==
    /\ i > Len(call.args)
    /\ \A j \in DOMAIN call.kwargs : call.kwargs[j][1] # def.parameters[i]

HasDefault(def, i) == i > Len(def.parameters) - Len(def.defaults)

DefaultOf(def, i) == def.defaults[i - (Len(def.parameters) - Len(def.defaults))]

\* (c) some parameter is left unbound and has no default.
MissingArgument(def, call) ==
    \E i \in DOMAIN def.parameters : LeftUnbound(def, call, i) /\ ~HasDefault(def, i)

\* The default expression of a parameter left unbound raises.
DefaultFails(def, call, st) ==
    \E i \in DOMAIN def.parameters :
        /\ LeftUnbound(def, call, i)
        /\ HasDefault(def, i)
        /\ ~eval(DefaultOf(def, i), 1, st).ok

\* The keyword arguments that name no parameter, as dict items.
Unmatched(def, call) ==
    LET rest == SelectSeq(call.kwargs, LAMBDA kw : kw[1] \notin Range(def.parameters))
    IN [i \in DOMAIN rest |-> <<StrV(rest[i][1]), rest[i][2]>>]

\* The bindings the function scope must hold when the body starts.
ExpectedBindings(def, call, st) ==
    [name \in Range(def.parameters) \cup ({def.var_args, def.kw_args} \ {NoName}) |->
        IF name = def.var_args
        THEN TupleV(SubSeq(call.args, Len(def.parameters) + 1, Len(call.args)))
        ELSE IF name = def.kw_args THEN DictV(Unmatched(def, call))
        ELSE LET i == CHOOSE i \in DOMAIN def.parameters : def.parameters[i] = name
             IN IF \E j \in DOMAIN call.kwargs : call.kwargs[j][1] = name
                THEN call.kwargs[CHOOSE j \in DOMAIN call.kwargs :
                                    call.kwargs[j][1] = name][2]
                ELSE IF i <= Len(call.args) THEN call.args[i]
                ELSE eval(DefaultOf(def, i), 1, st).val]

\* C9: a call of a user function in the interpreter binds positional
\* arguments to the parameters left to right and fails with a runtime
\* error, without running the body, exactly when (a) there are more
\* positional arguments than parameters and no *args, or (b) a keyword
\* names no parameter and there is no **kwargs, or (c) a parameter is left
\* unbound and has no default, or (d) the default expression of a
\* parameter left unbound raises; otherwise the body runs with every
\* parameter bound (to its keyword argument, else its positional argument,
\* else its default), *args holding the tuple of excess positionals and
\* **kwargs the dict of unmatched keywords.
C9_CallBindsOrFails ==
    cl_native.called =>
        /\ cl_native.error # "" <=>
              \/ TooManyPositionals(cl_def, cl_call)
              \/ UnknownKeyword(cl_def, cl_call)
              \/ MissingArgument(cl_def, cl_call)
              \/ DefaultFails(cl_def, cl_call, cl_st)
        /\ cl_native.error # "" =>
              cl_native.error = "KilatRuntimeError" /\ cl_native.out = <<>>
        /\ cl_native.error = "" =>
              /\ cl_native.out = <<"body">>
              /\ cl_native.bindings = ExpectedBindings(cl_def, cl_call, cl_st)

\* A call that fails although (a), (b) and (c) are all false.
C9_Witness ==
    /\ cl_native.called
    /\ cl_native.error = "KilatRuntimeError"
    /\ cl_native.out = <<>>
    /\ DefaultFails(cl_def, cl_call, cl_st)
    /\ ~TooManyPositionals(cl_def, cl_call)
    /\ ~UnknownKeyword(cl_def, cl_call)
    /\ ~MissingArgument(cl_def, cl_call)

\* C9 as stated: the call fails exactly when (a), (b) or (c).
C9_FailsExactlyWhen ==
    cl_native.called =>
        (cl_native.error # "" <=>
            \/ TooManyPositionals(cl_def, cl_call)
            \/ UnknownKeyword(cl_def, cl_call)
            \/ MissingArgument(cl_def, cl_call))

\* C10: for every signature and every list of positional and keyword
\* arguments, _call_vm_function ends like KilatFunction.call: both fail or
\* both succeed, and on success the new function scope holds the same
\* name-to-value bindings, the *args tuple and **kwargs dict included.
C10_BindingMirrors ==
    (cl_stage = "done" /\ cl_bytecode.called) =>
        /\ cl_native.error = "" <=> cl_bytecode.error = ""
        /\ (cl_native.error = "" /\ cl_bytecode.error = "") =>
              cl_native.bindings = cl_bytecode.bindings

(***************************************************************************)
(*         STATEMENTS ON A CHAIN OF SCOPES (Environment, both engines)     *)
(* A chain of scopes root <- ... <- current is given: each scope binds x   *)
(* or not, and has declared x global or not.  A short block of statements  *)
(* is executed in the current scope by the interpreter, and its compiled   *)
(* form by the machine in a frame on the same scope.                       *)
(***************************************************************************)
\* The value x has in the scope at this level of the chain.
ValueAt(level) == IntV(10 * level)

\* The scope at a level (1 is the module scope, which holds the builtins).
Scope(level, bound, declared) ==
    [parent |-> level - 1,
     variables |-> IF bound
                   THEN ("x" :> ValueAt(level)) @@
                        (IF level = 1 THEN GlobalEnv.variables ELSE <<>>)
                   ELSE IF level = 1 THEN GlobalEnv.variables ELSE <<>>,
     globals |-> IF declared THEN {"x"} ELSE {}]

Chains ==
    UNION { { [level \in 1..depth |-> Scope(level, c[level][1], c[level][2])] :
                c \in [1..depth -> BOOLEAN \X BOOLEAN] } : depth \in 1..MaxDepth }

\* x = 7, x += 1, global x, cetak(x).
Assign == AssignmentNode("x", Num(7))

Augment == AugmentedAssignmentNode("x", "+", Num(1))

Global == GlobalNode(<<"x">>)

Load == Cetak(<<Id("x")>>)

Blocks == UNION { SeqsOf({Assign, Augment, Global, Load}, n) : n \in 1..MaxBlock }

NoScopeRun == [envs |-> <<>>, error |-> "", out |-> <<>>, done |-> FALSE]

ScopeInit ==
    /\ sc_heap \in Chains
    /\ sc_block \in Blocks
    /\ sc_stage = "start"
    /\ sc_native = NoScopeRun
    /\ sc_vm = NoVM

ScopeIdle ==
    /\ sc_heap = <<>>
    /\ sc_block = <<>>
    /\ sc_stage = "idle"
    /\ sc_native = NoScopeRun
    /\ sc_vm = NoVM

\* The current scope: the innermost of the chain.
Current == Len(sc_heap)

scope_result(r) ==
    [envs |-> r.st.envs, error |-> IF r.ok THEN "" ELSE r.val.k, out |-> r.st.out,
     done |-> TRUE]

\* The interpreter executes the block in the current scope.
ScopeNative ==
    /\ sc_stage = "start"
    /\ sc_native' = scope_result(exec_block(sc_block, Current,
                                     [envs |-> sc_heap, out |-> <<>>, ev |-> <<>>]))
    /\ sc_stage' = "native"
    /\ UNCHANGED <<sc_heap, sc_block, sc_vm>>
    /\ UNCHANGED notScope

\* The compiler of the code object the block belongs to: the names the
\* scope has declared global so far are in its set of globals.
scope_compiler(declared) == [KilatBytecodeCompiler("f") EXCEPT !.globals = declared]

\* The block is compiled and a frame on the current scope is started.
ScopeLoad ==
    /\ sc_stage = "native"
    /\ sc_vm' = [frames |-> <<Frame(compile_statements(sc_block,
                                       scope_compiler(sc_heap[Current].globals)).code,
                                    Current)>>,
                 envs |-> sc_heap, out |-> <<>>, status |-> "running"]
    /\ sc_stage' = "bytecode"
    /\ UNCHANGED <<sc_heap, sc_block, sc_native>>
    /\ UNCHANGED notScope

\* One iteration of the dispatch loop of the frame.
ScopeStep ==
    /\ sc_stage = "bytecode"
    /\ sc_vm.status = "running"
    /\ sc_vm' = vm_step(sc_vm)
    /\ UNCHANGED <<sc_heap, sc_block, sc_native, sc_stage>>
    /\ UNCHANGED notScope

ScopeNext == ScopeNative \/ ScopeLoad \/ ScopeStep

ScopeVMDone == sc_stage = "bytecode" /\ sc_vm.status # "running"

\* The scopes `envs` are the chain before the block except that scope e
\* binds x to `value`: no other scope, name or declaration differs.
OnlyBinds(envs, e, value) ==
    /\ Len(envs) = Len(sc_heap)
    /\ \A i \in 1..Len(sc_heap) : i # e => envs[i] = sc_heap[i]
    /\ envs[e].parent = sc_heap[e].parent
    /\ envs[e].globals = sc_heap[e].globals
    /\ DOMAIN envs[e].variables = DOMAIN sc_heap[e].variables \cup {"x"}
    /\ envs[e].variables["x"] = value
    /\ \A n \in DOMAIN sc_heap[e].variables \ {"x"} :
          envs[e].variables[n] = sc_heap[e].variables[n]

\* C12: a plain assignment `x = 7` executed in a scope that has not declared
\* x global binds x in the current scope only: every enclosing scope, a
\* same-named x in it included, is left as it was, by the interpreter's
\* AssignmentNode and by the machine's STORE_NAME_DEFINE.
C12_AssignBindsCurrentOnly ==
    (sc_block = <<Assign>> /\ "x" \notin sc_heap[Current].globals)
       => /\ sc_native.done
               => sc_native.error = "" /\ OnlyBinds(sc_native.envs, Current, IntV(7))
          /\ ScopeVMDone
               => sc_vm.status = "exit0" /\ OnlyBinds(sc_vm.envs, Current, IntV(7))

\* Both engines have executed `x = 7` in a scope that does not bind x, below
\* a scope that binds a same-named x.
C12_Witness ==
    /\ sc_block = <<Assign>>
    /\ Current >= 2
    /\ "x" \notin sc_heap[Current].globals
    /\ "x" \notin DOMAIN sc_heap[Current].variables
    /\ "x" \in DOMAIN sc_heap[Current - 1].variables
    /\ ScopeVMDone
    /\ sc_vm.envs[Current].variables["x"] = IntV(7)
    /\ sc_native.envs[Current].variables["x"] = IntV(7)

\* The nearest scope from e outwards that binds the name; 0 when none does.
RECURSIVE Binder(_, _, _)
Binder(envs, e, name) ==
    IF e = 0 THEN 0
    ELSE IF name \in DOMAIN envs[e].variables THEN e
    ELSE Binder(envs, envs[e].parent, name)

\* Some scope from e out to the scope `last` has declared the name global.
RECURSIVE DeclaredUpTo(_, _, _, _)
DeclaredUpTo(envs, e, last, name) ==
    \/ name \in envs[e].globals
    \/ e # last /\ envs[e].parent # 0 /\ DeclaredUpTo(envs, envs[e].parent, last, name)

\* No scope from the current one out to the nearest binder of x has
\* declared x global.
AugPlain == ~DeclaredUpTo(sc_heap, Current, Binder(sc_heap, Current, "x"), "x")

\* The value `x += 1` computes from the nearest binding of x.
AugValue == IntV(ValueAt(Binder(sc_heap, Current, "x")).v + 1)

AugUnbound(error, envs) == error = "KilatRuntimeError" /\ envs = sc_heap

RootBinds(envs, value) ==
    /\ Len(envs) = Len(sc_heap)
    /\ "x" \in DOMAIN envs[1].variables
    /\ envs[1].variables["x"] = value
    /\ \A i \in 2..Len(sc_heap) : envs[i].variables = sc_heap[i].variables

\* C14: once `global x` has been executed in a scope, a load of x in that
\* scope returns the root binding and a store to x writes the root binding,
\* also when the scope itself or a scope between it and the root binds x.
C14_GlobalTargetsRoot ==
    /\ (sc_block = <<Global, Load>> /\ "x" \in DOMAIN sc_heap[1].variables)
          => /\ sc_native.done => sc_native.out = <<PyStr(ValueAt(1))>>
             /\ ScopeVMDone => sc_vm.out = <<PyStr(ValueAt(1))>>
    /\ sc_block = <<Global, Assign>>
          => /\ sc_native.done => RootBinds(sc_native.envs, IntV(7))
             /\ ScopeVMDone => RootBinds(sc_vm.envs, IntV(7))

\* C15: a `global x` that follows an executed statement of the same scope
\* is rejected with an error and x is not added to the names the scope has
\* declared global.
C15_LateGlobalRejected ==
    (sc_block = <<Assign, Global>> /\ "x" \notin sc_heap[Current].globals)
       => /\ sc_native.done
               => sc_native.error # "" /\ "x" \notin sc_native.envs[Current].globals
          /\ ScopeVMDone
               => sc_vm.status # "exit0" /\ "x" \notin sc_vm.envs[Current].globals

(***************************************************************************)
(*      ATTRIBUTES OF AN INSTANCE (KilatClass, KilatInstance, both engines) *)
(* A chain of classes is given, each the base of the next; every class     *)
(* defines some of the methods m and n.  An instance of the last class is  *)
(* created, attributes are set on it, one attribute is read on each engine *)
(* and, when the read gave a bound method, the bound method is called.     *)
(***************************************************************************)
MethodNames == {"m", "n"}

AttributeNames == {"m", "v"}

\* The class at place i of the chain (Python names it K1, K2, ...).
ClassName(i) == "K" \o IntStr(i)

\* `fungsi name(self, k): cetak("<class>"); kembali k` in the body of class i.
MethodDef(i, name) ==
    FunctionDefNode(name, <<"self", "k">>, <<>>, NoName, NoName,
                    <<Say(ClassName(i)), ReturnNode(Id("k"))>>)

\* The chains of classes: for each class the names of the methods it defines.
Shapes == UNION { [1..depth -> SUBSET MethodNames] : depth \in 1..MaxClasses }

\* execute(ClassDefNode): the methods are KilatFunctions.
NativeClasses(shape) ==
    [i \in 1..Len(shape) |->
        KilatClass(ClassName(i), i - 1,
                   [name \in shape[i] |-> KilatFunction(MethodDef(i, name), 1)])]

\* MAKE_CLASS: the methods are VMFunctions.
VMClasses(shape) ==
    [i \in 1..Len(shape) |->
        KilatClass(ClassName(i), i - 1,
                   [name \in shape[i] |->
                       VMFunction(name, method_code(MethodDef(i, name)), <<>>, 1)])]

\* KilatClass._get_method; None is NoneV.
RECURSIVE _get_method(_, _, _)
_get_method(classes, klass, name) ==
    IF name \in DOMAIN classes[klass].v.methods THEN classes[klass].v.methods[name]
    ELSE IF classes[klass].v.base_class # 0
         THEN _get_method(classes, classes[klass].v.base_class, name)
    ELSE NoneV

\* class KilatInstance: klass is the place of its class in the table.
KilatInstance(klass) == Val("instance", [klass |-> klass, attributes |-> <<>>])

\* KilatInstance.set_attr.
set_attr(instance, name, value) ==
    [instance EXCEPT !.v.attributes = (name :> value) @@ @]

\* The closure bound_call: it keeps the method and the instance.
BoundMethod(method, instance) ==
    Val("bound", [method |-> method, instance |-> instance])

\* A lookup that asked the classes before the instance's own attributes.
get_attr_MethodFirst(instance, name, classes) ==
    IF _get_method(classes, instance.v.klass, name).k # NoneV.k
    THEN BoundMethod(_get_method(classes, instance.v.klass, name), instance)
    ELSE IF name \in DOMAIN instance.v.attributes THEN instance.v.attributes[name]
    ELSE KilatRuntimeError("Atribut tidak ditemui")

\* KilatInstance.get_attr: the value, or the exception raised.
get_attr(instance, name, classes) ==
    IF name \in DOMAIN instance.v.attributes THEN instance.v.attributes[name]
    ELSE IF _get_method(classes, instance.v.klass, name).k # NoneV.k
         THEN BoundMethod(_get_method(classes, instance.v.klass, name), instance)
    ELSE KilatRuntimeError("Atribut tidak ditemui")

\* KilatVM._get_attribute, the branch of a KilatInstance: the value, or the
\* exception raised.
_get_attribute(obj, attr, classes) ==
    IF attr \in DOMAIN obj.v.attributes THEN obj.v.attributes[attr]
    ELSE IF _get_method(classes, obj.v.klass, attr).k # NoneV.k
         THEN BoundMethod(_get_method(classes, obj.v.klass, attr), obj)
    ELSE KilatRuntimeError("Atribut tidak ditemui")

\* bound_call(*args) of get_attr: bound.call(interpreter, [instance] + args).
bound_call(bound, args, st) ==
    KilatFunction_call(bound.v.method.v, <<bound.v.instance>> \o args, <<>>, st)

\* bound_call(*args) of KilatVM._get_attribute for a VMFunction.
vm_bound_call(vm, bound, args) ==
    _call_vm_function(vm, bound.v.method.v, <<bound.v.instance>> \o args, <<>>)

NoRead == [name |-> NoName, native |-> NoneV, vm |-> NoneV]

NoBoundCall == [args |-> <<>>, result |-> Ok(StartState, NoneV), called |-> FALSE]

AttrInit ==
    /\ at_shape \in Shapes
    /\ at_instance = KilatInstance(Len(at_shape))
    /\ at_stage = "built"
    /\ at_read = NoRead
    /\ at_call = NoBoundCall
    /\ at_vm = NoVM

AttrIdle ==
    /\ at_shape = <<>>
    /\ at_instance = NoneV
    /\ at_stage = "idle"
    /\ at_read = NoRead
    /\ at_call = NoBoundCall
    /\ at_vm = NoVM

\* `obj.name = value`: set_attr, STORE_ATTR.
AttrSet ==
    /\ at_stage = "built"
    /\ \E name \in AttributeNames \ DOMAIN at_instance.v.attributes :
          at_instance' = set_attr(at_instance, name, IntV(1))
    /\ UNCHANGED <<at_shape, at_stage, at_read, at_call, at_vm>>
    /\ UNCHANGED notAttr

\* `obj.name` is evaluated by the interpreter: _get_attribute hands an
\* instance to its get_attr.
AttrGetNative ==
    /\ at_stage = "built"
    /\ \E name \in MethodNames \cup AttributeNames :
          at_read' = [name |-> name,
                      native |-> get_attr(at_instance, name, NativeClasses(at_shape)),
                      vm |-> NoneV]
    /\ at_stage' = "native read"
    /\ UNCHANGED <<at_shape, at_instance, at_call, at_vm>>
    /\ UNCHANGED notAttr

\* LOAD_ATTR name on the same instance.
AttrGetVM ==
    /\ at_stage = "native read"
    /\ at_read' = [at_read EXCEPT !.vm = _get_attribute(at_instance, at_read.name,
                                                        VMClasses(at_shape))]
    /\ at_stage' = "read"
    /\ UNCHANGED <<at_shape, at_instance, at_call, at_vm>>
    /\ UNCHANGED notAttr

\* The bound method the interpreter returned is called with one argument.
AttrCallNative ==
    /\ at_stage = "read"
    /\ at_read.native.k = "bound"
    /\ \E v \in 0..MaxValue :
          at_call' = [args |-> <<IntV(v)>>,
                      result |-> bound_call(at_read.native, <<IntV(v)>>, StartState),
                      called |-> TRUE]
    /\ at_stage' = "native called"
    /\ UNCHANGED <<at_shape, at_instance, at_read, at_vm>>
    /\ UNCHANGED notAttr

\* The bound method the machine returned is called with the same argument
\* from the module frame.
AttrCallVM ==
    /\ at_stage = "native called"
    /\ at_read.vm.k = "bound"
    /\ at_vm' = vm_bound_call(KilatVM(CodeObject("<kilat>")), at_read.vm, at_call.args)
    /\ at_stage' = "called"
    /\ UNCHANGED <<at_shape, at_instance, at_read, at_call>>
    /\ UNCHANGED notAttr

\* One iteration of the dispatch loop of the method's frame.
AttrStep ==
    /\ at_stage = "called"
    /\ at_vm.status = "running"
    /\ Len(at_vm.frames) = 2
    /\ at_vm' = vm_step(at_vm)
    /\ UNCHANGED <<at_shape, at_instance, at_stage, at_read, at_call>>
    /\ UNCHANGED notAttr

AttrNext ==
    AttrSet \/ AttrGetNative \/ AttrGetVM \/ AttrCallNative \/ AttrCallVM \/ AttrStep

\* The nearest class, from the instance's class towards the root of the
\* chain, that defines the method; 0 when none does.
Definer(name) ==
    IF \E i \in 1..Len(at_shape) : name \in at_shape[i]
    THEN CHOOSE i \in 1..Len(at_shape) :
            /\ name \in at_shape[i]
            /\ \A j \in (i + 1)..Len(at_shape) : name \notin at_shape[j]
    ELSE 0

\* What reading the attribute must give, the methods being those of `classes`.
ReadGives(result, classes) ==
    IF at_read.name \in DOMAIN at_instance.v.attributes
    THEN /\ result.k = at_instance.v.attributes[at_read.name].k
         /\ result = at_instance.v.attributes[at_read.name]
    ELSE IF Definer(at_read.name) # 0
    THEN /\ result.k = "bound"
         /\ result.v.instance = at_instance
         /\ result.v.method = classes[Definer(at_read.name)].v.methods[at_read.name]
    ELSE result.k = "KilatRuntimeError"

\* The scope of the method's call binds self to the instance and k to the
\* argument.
MethodScope(envs) ==
    /\ envs[Len(envs)].variables["self"] = at_instance
    /\ envs[Len(envs)].variables["k"] = at_call.args[1]

\* C16: reading an attribute of an instance gives the instance's own
\* attribute when it has one; otherwise the method of that name of the
\* nearest class along class, base, base of base, bound to the instance;
\* otherwise a missing-attribute runtime error.  Calling the bound method
\* runs that method with the instance as first argument before the
\* arguments of the call.  Both engines do so.
C16_AttributeLookup ==
    /\ at_stage \notin {"idle", "built"}
          => ReadGives(at_read.native, NativeClasses(at_shape))
    /\ at_stage \in {"read", "native called", "called"}
          => ReadGives(at_read.vm, VMClasses(at_shape))
    /\ at_call.called
          => /\ at_call.result.ok
             /\ at_call.result.val = at_call.args[1]
             /\ at_call.result.st.out = <<ClassName(Definer(at_read.name))>>
             /\ MethodScope(at_call.result.st.envs)
    /\ (at_stage = "called" /\ Len(at_vm.frames) = 1)
          => /\ at_vm.status = "running"
             /\ top(at_vm).stack = at_call.args
             /\ at_vm.out = <<ClassName(Definer(at_read.name))>>
             /\ MethodScope(at_vm.envs)

\* Both engines have read m on an instance that has an attribute v and no
\* attribute m, whose class does not define m while a base overridden by no
\* nearer class does, and have called the bound method.
C16_Witness ==
    /\ at_stage = "called"
    /\ Len(at_vm.frames) = 1
    /\ at_read.name = "m"
    /\ DOMAIN at_instance.v.attributes = {"v"}
    /\ Len(at_shape) = 3
    /\ Definer("m") = 2
    /\ "m" \in at_shape[1]
    /\ at_call.called
    /\ at_vm.out = <<"K2">>

(***************************************************************************)
(*        THE LINE-START PROTOCOL (KilatLexer2.handle_indentation)         *)
(* The lexer starts a number of non-blank, non-comment lines, each with a  *)
(* measured indentation; tokenize hands the indentation to                 *)
(* handle_indentation before it scans the line.  The tokens of the line    *)
(* itself are left out: only INDENT and DEDENT are kept.                   *)
(***************************************************************************)
\* KilatLexer2.__init__: indent_stack = [0], no token.
NewLexer == [indent_stack |-> <<0>>, tokens |-> <<>>, lex_state |-> "scan"]

IndentInit ==
    /\ in_lexer = NewLexer
    /\ in_before = NewLexer
    /\ in_level = -1
    /\ in_lines = 0

IndentIdle ==
    /\ in_lexer = NewLexer
    /\ in_before = NewLexer
    /\ in_level = -1
    /\ in_lines = -1

\* tokenize at the start of a line that is neither blank nor a comment:
\* self.handle_indentation(indent_level).
IndentLine ==
    /\ in_lines >= 0
    /\ in_lines < MaxLines
    /\ in_lexer.lex_state = "scan"
    /\ \E indent_level \in 0..MaxIndent :
          /\ in_lexer' = handle_indentation(in_lexer, indent_level)
          /\ in_level' = indent_level
    /\ in_before' = in_lexer
    /\ in_lines' = in_lines + 1
    /\ UNCHANGED notIndent

IndentNext == IndentLine

\* k DEDENT tokens.
Dedents(k) == [i \in 1..k |-> "DEDENT"]

\* The lexer a line of indentation in_level must leave when the entries in
\* `kept` stay on the stack and the others are popped.
PoppedTo(kept) ==
    /\ in_lexer.indent_stack = kept
    /\ in_lexer.tokens =
          in_before.tokens \o Dedents(Len(in_before.indent_stack) - Len(kept))
    /\ in_lexer.lex_state =
          IF kept # <<>> /\ Last(kept) = in_level THEN "scan" ELSE "SyntaxError"

\* What a line must leave when its indentation is above or at the top of
\* the stack.
PushedOrSame ==
    /\ in_level > Last(in_before.indent_stack)
          => /\ in_lexer.indent_stack = Append(in_before.indent_stack, in_level)
             /\ in_lexer.tokens = Append(in_before.tokens, "INDENT")
             /\ in_lexer.lex_state = "scan"
    /\ in_level = Last(in_before.indent_stack) => in_lexer = in_before

IsLevel(e) == e <= in_level

IsBelow(e) == e < in_level

\* C19: at the start of a non-blank, non-comment line of indentation n,
\* with t the top of the indent stack: n > t pushes n and emits one INDENT;
\* n = t changes nothing; n < t pops every entry greater than n, one DEDENT
\* per pop, and it is a lexical error when n differs from the new top.
C19_LineStartProtocol ==
    in_level >= 0
       => /\ PushedOrSame
          /\ in_level < Last(in_before.indent_stack)
                => PoppedTo(SelectSeq(in_before.indent_stack, IsLevel))

\* A line has popped two entries at once and landed on a level of the stack.
C19_Witness ==
    /\ in_before.indent_stack = <<0, 1, 3>>
    /\ in_level = 1
    /\ in_lexer.indent_stack = <<0, 1>>
    /\ in_lexer.lex_state = "scan"
    /\ in_lines = 4

\* C19 as stated: n < t pops every entry greater than or equal to n.
C19_PopsGreaterOrEqual ==
    in_level >= 0
       => /\ PushedOrSame
          /\ in_level < Last(in_before.indent_stack)
                => PoppedTo(SelectSeq(in_before.indent_stack, IsBelow))

(***************************************************************************)
(*            LOADING A DAMAGED FILE (deserialize_code)                    *)
(* A .klc file is written from a compiled program; then one thing is done  *)
(* to its bytes (a byte of the magic or of the version is replaced, the    *)
(* tag of a constant or the opcode of an instruction is replaced by a byte *)
(* that is none, or the file is cut short) and deserialize_code reads it.  *)
(***************************************************************************)
LoadPool == {StmtConsts, StmtDef, StmtIf}

LoadPrograms ==
    {ProgramNode(body) : body \in UNION {[1..n -> LoadPool] : n \in 0..MaxStmts}}

NoDamage == [kind |-> "none", at |-> 0, byte |-> 0]

LoadInit ==
    /\ ld_code \in { compile_program(p).code : p \in LoadPrograms }
    /\ ld_data = serialize_code(ld_code).buf
    /\ ld_damage = NoDamage
    /\ ld_stage = "file"
    /\ ld_result = NoLoad

LoadIdle ==
    /\ ld_code = CodeObject("")
    /\ ld_data = <<>>
    /\ ld_damage = NoDamage
    /\ ld_stage = "idle"
    /\ ld_result = NoLoad

\* The bytes a damaged place is given.
DamageBytes == {0, 2, 4, 8, 9, 255}

ConstantTags == 0..7

\* The place in the file of the tag of constant j of the module code: the
\* file of the same code with the constants before j only, and no names or
\* instructions, ends with the two counts after those constants.
TagPlace(code, j) ==
    Len(serialize_code([code EXCEPT !.constants = SubSeq(@, 1, j - 1),
                                    !.names = <<>>,
                                    !.instructions = <<>>]).buf) - 8 + 1

\* The place of the opcode byte of instruction j of the module code: the
\* instructions, five bytes each, end the file.
OpcodePlace(code, data, j) == Len(data) - 5 * (Len(code.instructions) - j + 1) + 1

Replaced(kind, at, byte) ==
    /\ byte # ld_data[at]
    /\ ld_data' = [ld_data EXCEPT ![at] = byte]
    /\ ld_damage' = [kind |-> kind, at |-> at, byte |-> byte]

\* A byte of the magic or of the version is replaced by another.
DamageHeader ==
    /\ ld_stage = "file"
    /\ \E at \in 1..6, byte \in DamageBytes :
          Replaced(IF at <= 4 THEN "magic" ELSE "version", at, byte)
    /\ ld_stage' = "damaged"
    /\ UNCHANGED <<ld_code, ld_result>>
    /\ UNCHANGED notLoad

\* The tag of a constant is replaced by a byte that is no tag.
DamageTag ==
    /\ ld_stage = "file"
    /\ \E j \in 1..Len(ld_code.constants), byte \in DamageBytes \ ConstantTags :
          Replaced("tag", TagPlace(ld_code, j), byte)
    /\ ld_stage' = "damaged"
    /\ UNCHANGED <<ld_code, ld_result>>
    /\ UNCHANGED notLoad

\* The opcode of an instruction is replaced by a byte that is no opcode.
DamageOpcode ==
    /\ ld_stage = "file"
    /\ \E j \in 1..Len(ld_code.instructions),
          byte \in { b \in DamageBytes : \A name \in OpCodeNames : OpCode[name] # b } :
          Replaced("opcode", OpcodePlace(ld_code, ld_data, j), byte)
    /\ ld_stage' = "damaged"
    /\ UNCHANGED <<ld_code, ld_result>>
    /\ UNCHANGED notLoad

\* The file is cut after its first n bytes.
Truncate ==
    /\ ld_stage = "file"
    /\ \E n \in 0..(Len(ld_data) - 1) :
          /\ ld_data' = SubSeq(ld_data, 1, n)
          /\ ld_damage' = [kind |-> "truncated", at |-> n, byte |-> 0]
    /\ ld_stage' = "damaged"
    /\ UNCHANGED <<ld_code, ld_result>>
    /\ UNCHANGED notLoad

\* deserialize_code(data) on the bytes as they are.
LoadKlc ==
    /\ ld_stage \in {"file", "damaged"}
    /\ ld_result' = deserialize_code(ld_data)
    /\ ld_stage' = "loaded"
    /\ UNCHANGED <<ld_code, ld_data, ld_damage>>
    /\ UNCHANGED notLoad

LoadNext == DamageHeader \/ DamageTag \/ DamageOpcode \/ Truncate \/ LoadKlc

\* C20: deserialize_code returns a code object only for well-formed input:
\* a file whose magic or version bytes are not those of the format, in
\* which a constant has an unknown tag or an instruction an unknown opcode
\* byte, or that is cut short, ends in an error, so that no code object,
\* partly filled or not, is returned; the undamaged file is read back.
C20_DamagedFileRejected ==
    ld_stage = "loaded"
       => IF ld_damage.kind = "none"
          THEN ld_result = [code |-> ld_code, error |-> ""]
          ELSE ld_result.error # ""

\* A file with an unknown opcode byte in its last instruction but one, and
\* nothing else wrong, has been refused with the ValueError of OpCode(op).
C20_Witness ==
    /\ ld_stage = "loaded"
    /\ ld_damage.kind = "opcode"
    /\ ld_damage.at = Len(ld_data) - 9
    /\ Len(ld_code.constants) >= 2
    /\ ld_result.error = "ValueError"

(***************************************************************************)
(*          PARSING A TOKEN LIST (parse_kilat after the lexer)             *)
(* The token list of one expression statement, operands and binary         *)
(* operators in turn, or of one try statement, is parsed; the expression   *)
(* is then evaluated by the interpreter.                                   *)
(***************************************************************************)
Operands == {2, 3, 4}

\* One operator token of each level, two of the additive and of the
\* multiplicative level.
ExprOperators ==
    {Token("ATAU_LOGIK", "atau_logik"), Token("DAN", "dan"), Token("LT", "<"),
     Token("PLUS", "+"), Token("MINUS", "-"), Token("MULTIPLY", "*"),
     Token("MODULO", "%"), Token("POWER", "**")}

EndOfLine == <<Token("NEWLINE", "\n"), Token("EOF", "")>>

\* operand operator operand ... operand NEWLINE EOF
ExpressionList(operands, operators) ==
    [i \in 1..(2 * Len(operators) + 1) |->
        IF i % 2 = 1 THEN Token("NUMBER", operands[(i + 1) \div 2])
        ELSE operators[i \div 2]] \o EndOfLine

\* toks is the list of an expression of up to MaxOperators operators.
IsExpressionList(toks) ==
    \E k \in 0..MaxOperators :
        \E operands \in [1..(k + 1) -> Operands], operators \in [1..k -> ExprOperators] :
            toks = ExpressionList(operands, operators)

\* Of the lists parsed, those of an expression begin with a number.
BeginsWithNumber(toks) == toks # <<>> /\ toks[1].type = "NUMBER"

Word(type, value) == <<Token(type, value)>>

\* `: NEWLINE INDENT lulus NEWLINE DEDENT`
PassBlock ==
    <<Token("COLON", ":"), Token("NEWLINE", "\n"), Token("INDENT", ""),
      Token("LULUS", "lulus"), Token("NEWLINE", "\n"), Token("DEDENT", "")>>

\* The heads of a handler: [type_name, alias], either of them NoName for
\* one that is not written.
ClauseHeads ==
    [type_name : {NoName, "Ralat", "T"}, alias : {NoName, "e"}]

\* tangkap [T] [sebagai e]: lulus
ClauseTokens(head) ==
    Word("TANGKAP", "tangkap")
        \o (IF head.type_name # NoName THEN Word("IDENTIFIER", head.type_name) ELSE <<>>)
        \o (IF head.alias # NoName
            THEN Word("SEBAGAI", "sebagai") \o Word("IDENTIFIER", head.alias) ELSE <<>>)
        \o PassBlock

RECURSIVE Clauses(_)
Clauses(heads) ==
    IF heads = <<>> THEN <<>> ELSE ClauseTokens(Head(heads)) \o Clauses(Tail(heads))

\* cuba: lulus, the handlers, [akhirnya: lulus], EOF
TryList(heads, with_finally) ==
    Word("CUBA", "cuba") \o PassBlock \o Clauses(heads)
        \o (IF with_finally THEN Word("AKHIRNYA", "akhirnya") \o PassBlock ELSE <<>>)
        \o Word("EOF", "")

HeadLists == UNION { [1..n -> ClauseHeads] : n \in 1..MaxHandlers }

\* toks is the list of a try statement of up to MaxHandlers handlers.
IsTryList(toks) ==
    \E heads \in HeadLists, with_finally \in BOOLEAN : toks = TryList(heads, with_finally)

NoTree == [pos |-> 0, node |-> NoNode, error |-> "none"]

NoValue == [ok |-> FALSE, st |-> StartState, val |-> NoneV]

ParseInit ==
    /\ IsExpressionList(ps_tokens) \/ IsTryList(ps_tokens)
    /\ ps_stage = "tokens"
    /\ ps_tree = NoTree
    /\ ps_value = NoValue

ParseIdle ==
    /\ ps_tokens = <<>>
    /\ ps_stage = "idle"
    /\ ps_tree = NoTree
    /\ ps_value = NoValue

\* KilatParser(tokens).parse()
Parse ==
    /\ ps_stage = "tokens"
    /\ ps_tree' = parse(ps_tokens)
    /\ ps_stage' = "parsed"
    /\ UNCHANGED <<ps_tokens, ps_value>>
    /\ UNCHANGED notParse

CapMul(a, b) == IF a * b > MaxMagnitude THEN MaxMagnitude + 1 ELSE a * b

RECURSIVE CapPow(_, _, _)
CapPow(a, b, acc) ==
    IF b = 0 \/ acc > MaxMagnitude THEN acc ELSE CapPow(a, b - 1, CapMul(acc, a))

RECURSIVE HasMinus(_)
HasMinus(node) ==
    /\ node.t = "BinaryOpNode"
    /\ node.operator = "-" \/ HasMinus(node.left) \/ HasMinus(node.right)

\* A bound on the size of every number the evaluation of an expression
\* meets, MaxMagnitude + 1 standing for all greater ones and for an
\* exponent that may be negative (a float result).
RECURSIVE Magnitude(_)
Magnitude(node) ==
    IF node.t = "NumberNode" THEN node.value.v
    ELSE IF node.t # "BinaryOpNode" THEN MaxMagnitude + 1
    ELSE Only({ IF m[1] > MaxMagnitude \/ m[2] > MaxMagnitude THEN MaxMagnitude + 1
                ELSE IF node.operator = "*" THEN CapMul(m[1], m[2])
                ELSE IF node.operator = "**"
                THEN (IF HasMinus(node.right) THEN MaxMagnitude + 1
                      ELSE IF m[1] <= 1 THEN 1 ELSE CapPow(m[1], m[2], 1))
                ELSE m[1] + m[2] :
                m \in {<<Magnitude(node.left), Magnitude(node.right)>>} })

\* The expression statement is evaluated in the global scope.
Evaluate ==
    /\ ps_stage = "parsed"
    /\ ps_tree.error = ""
    /\ Len(ps_tree.node.statements) = 1
    /\ ps_tree.node.statements[1].t \in {"NumberNode", "BinaryOpNode"}
    /\ Magnitude(ps_tree.node.statements[1]) <= MaxMagnitude
    /\ ps_value' = eval(ps_tree.node.statements[1], 1, StartState)
    /\ ps_stage' = "evaluated"
    /\ UNCHANGED <<ps_tokens, ps_tree>>
    /\ UNCHANGED notParse

ParseNext == Parse \/ Evaluate

\* The level of a binary operator in the order  or < and < not <
\* comparison < additive < multiplicative < power.
PrecedenceLevel(operator) ==
    CASE operator = "atau_logik" -> 1
      [] operator = "dan" -> 2
      [] operator \in {"==", "!=", "<", ">", "<=", ">=", "dalam", "adalah"} -> 4
      [] operator \in {"+", "-"} -> 5
      [] operator \in {"*", "/", "//", "%"} -> 6
      [] operator = "**" -> 7

\* The operands and operators of a tree from left to right.
RECURSIVE Yield(_)
Yield(node) ==
    IF node.t = "BinaryOpNode"
    THEN Yield(node.left) \o <<node.operator>> \o Yield(node.right)
    ELSE IF node.t = "NumberNode" THEN <<IntStr(node.value.v)>>
    ELSE <<node.t>>

\* The operands and operators of an expression list as written.
Spelled(toks) ==
    [i \in 1..(Len(toks) - 2) |->
        IF toks[i].type = "NUMBER" THEN IntStr(toks[i].value) ELSE toks[i].value]

\* An operand may be an operation of a higher level; of the same level on
\* the left for a left-associative level, on the right for the power level;
\* the levels below the additive one may nest either way.
RECURSIVE NestedByPrecedence(_)
NestedByPrecedence(node) ==
    node.t = "BinaryOpNode" =>
        LET level == PrecedenceLevel(node.operator)
        IN /\ NestedByPrecedence(node.left)
           /\ NestedByPrecedence(node.right)
           /\ node.left.t = "BinaryOpNode" =>
                 \/ PrecedenceLevel(node.left.operator) > level
                 \/ PrecedenceLevel(node.left.operator) = level /\ level # 7
           /\ node.right.t = "BinaryOpNode" =>
                 \/ PrecedenceLevel(node.right.operator) > level
                 \/ PrecedenceLevel(node.right.operator) = level /\ level \in {1, 2, 4, 7}

\* 2 + 3 * 4,  2 ** 3 ** 2,  4 - 3 - 2,  2 * 3 % 4  and their values.
Examples ==
    { <<ExpressionList(<<2, 3, 4>>, <<Token("PLUS", "+"), Token("MULTIPLY", "*")>>), 14>>,
      <<ExpressionList(<<2, 3, 2>>, <<Token("POWER", "**"), Token("POWER", "**")>>), 512>>,
      <<ExpressionList(<<4, 3, 2>>, <<Token("MINUS", "-"), Token("MINUS", "-")>>), -1>>,
      <<ExpressionList(<<2, 3, 4>>, <<Token("MULTIPLY", "*"), Token("MODULO", "%")>>), 2>> }

\* C29: every parenthesis-free expression of binary operators is parsed
\* into one tree that reads from left to right as the expression is written
\* and nests the operators by the order  or < and < comparison < additive <
\* multiplicative < power : an operator of a higher level binds tighter,
\* additive and multiplicative chains associate to the left, `**` to the
\* right; so 2 + 3 * 4 evaluates to 14 and 2 ** 3 ** 2 to 512.
C29_PrecedenceNesting ==
    (BeginsWithNumber(ps_tokens) /\ ps_stage \in {"parsed", "evaluated"})
       => /\ ps_tree.error = ""
          /\ Len(ps_tree.node.statements) = 1
          /\ Yield(ps_tree.node.statements[1]) = Spelled(ps_tokens)
          /\ NestedByPrecedence(ps_tree.node.statements[1])
          /\ \A example \in Examples :
                ps_tokens = example[1]
                   => /\ ps_stage = "parsed" => ENABLED Evaluate
                      /\ ps_stage = "evaluated"
                            => ps_value.ok /\ ps_value.val = IntV(example[2])

\* 2 ** 3 ** 2 has been parsed with the second `**` under the first and
\* evaluated to 512.
C29_Witness ==
    /\ ps_stage = "evaluated"
    /\ Spelled(ps_tokens) = <<"2", "**", "3", "**", "2">>
    /\ ps_tree.node.statements[1].right.t = "BinaryOpNode"
    /\ ps_value.val = IntV(512)

\* The handlers the parser is to build for a list of heads.
ExpectedClauses(heads) ==
    [i \in 1..Len(heads) |-> <<heads[i].type_name, heads[i].alias, <<PassNode>> >>]

\* The head of handler 1 is `tangkap sebagai e`, or not.
AliasAlone(heads) == \E i \in 1..Len(heads) : heads[i] = [type_name |-> NoName, alias |-> "e"]

\* C28: in a handler clause the type name and the alias are independently
\* optional: `tangkap:`, `tangkap T:`, `tangkap T sebagai e:` and `tangkap
\* sebagai e:` are all accepted, and each handler of the tree has the type
\* name and the alias that were written, the last form a handler with no
\* type name and the alias e.
C28_HandlerHeadOptional ==
    (ps_stage = "parsed" /\ ps_tokens[1].type = "CUBA")
       => \A heads \in HeadLists, with_finally \in BOOLEAN :
             ps_tokens = TryList(heads, with_finally)
                => /\ ps_tree.error = ""
                   /\ ps_tree.node =
                         ProgramNode(<< TryNode(<<PassNode>>, ExpectedClauses(heads),
                                                IF with_finally THEN <<PassNode>> ELSE <<>>,
                                                0) >>)

(***************************************************************************)
(*        THE CONSTANT AND NAME POOLS (kilat_bytecode.py, SpecPool)        *)
(*                                                                         *)
(* One CodeObject receives a sequence of add_constant and add_name calls;  *)
(* pl_calls keeps, for each call, its argument, the index it returned and  *)
(* the size of the pool before the call.                                   *)
(***************************************************************************)
\* The values handed to add_constant.
PoolConstants ==
    {NoneV, BoolV(TRUE), IntV(1), FloatV("1.0"), FloatV("0.0"), FloatV("-0.0"),
     FloatV("nan"), StrV("1"), ListV(<<>>), Val("code", CodeObject("f"))}

\* The names handed to add_name.
PoolNames == {"x", "y"}

PoolInit ==
    /\ pl_code = CodeObject("<module>")
    /\ pl_calls = <<>>

PoolIdle ==
    /\ pl_code = CodeObject("")
    /\ pl_calls = <<>>

\* code.add_constant(value)
AddConstant ==
    /\ Len(pl_calls) < MaxCalls
    /\ \E value \in PoolConstants :
          /\ pl_code' = add_constant(pl_code, value)
          /\ pl_calls' = Append(pl_calls,
                                [kind |-> "constant", arg |-> value,
                                 index |-> constant_index(pl_code, value),
                                 size |-> Len(pl_code.constants)])
    /\ UNCHANGED notPool

\* code.add_name(name)
AddName ==
    /\ Len(pl_calls) < MaxCalls
    /\ \E name \in PoolNames :
          /\ pl_code' = add_name(pl_code, name)
          /\ pl_calls' = Append(pl_calls,
                                [kind |-> "name", arg |-> name,
                                 index |-> name_index(pl_code, name),
                                 size |-> Len(pl_code.names)])
    /\ UNCHANGED notPool

PoolNext == AddConstant \/ AddName

\* None, bool, int, float and str.
ScalarKinds == {"none", "bool", "int", "float", "str"}

\* Two constants of one type that Python's == holds for.
EqualConstants(a, b) ==
    /\ a.k = b.k
    /\ \/ a.v = b.v
       \/ a.k = "float" /\ a.v \in FloatZeros /\ b.v \in FloatZeros
    /\ ~(a.k = "float" /\ a.v = "nan")

\* The pool entry is the argument itself or a constant equal to it.
Denotes(entry, value) ==
    /\ entry.k = value.k
    /\ \/ entry.v = value.v
       \/ entry.k = "float" /\ entry.v \in FloatZeros /\ value.v \in FloatZeros

\* The calls made so far of one kind.
CallsOf(kind) == { n \in 1..Len(pl_calls) : pl_calls[n].kind = kind }

\* 1, 1.0 and true.
Ones == {IntV(1), FloatV("1.0"), BoolV(TRUE)}

\* C26: after any sequence of add_constant and add_name calls the names
\* list holds no name twice; no two scalar constants of the pool have the
\* same type and are equal, and 1, 1.0 and true got different indices; a
\* list or a nested CodeObject always got a fresh entry; and every index a
\* call returned, however long ago, denotes that call's argument.
C26_PoolsDeduplicated ==
    /\ \A i, j \in 1..Len(pl_code.names) :
           i < j => pl_code.names[i] # pl_code.names[j]
    /\ \A i, j \in 1..Len(pl_code.constants) :
           (i < j /\ pl_code.constants[i].k \in ScalarKinds)
              => ~EqualConstants(pl_code.constants[i], pl_code.constants[j])
    /\ \A m, n \in CallsOf("constant") :
           (/\ pl_calls[m].arg \in Ones
            /\ pl_calls[n].arg \in Ones
            /\ pl_calls[m].arg.k # pl_calls[n].arg.k)
              => pl_calls[m].index # pl_calls[n].index
    /\ \A n \in CallsOf("constant") :
           /\ pl_calls[n].arg.k \in {"list", "code"}
                 => pl_calls[n].index = pl_calls[n].size
           /\ pl_calls[n].index < Len(pl_code.constants)
           /\ Denotes(pl_code.constants[pl_calls[n].index + 1], pl_calls[n].arg)
    /\ \A n \in CallsOf("name") :
           /\ pl_calls[n].index < Len(pl_code.names)
           /\ pl_code.names[pl_calls[n].index + 1] = pl_calls[n].arg

\* 1, 1.0 and true were added and 1 was added again: three entries, and the
\* second 1 got the index of the first.
C26_Witness ==
    /\ Len(pl_calls) = 4
    /\ \A n \in 1..4 : pl_calls[n].kind = "constant"
    /\ pl_calls[1].arg.k = "int" /\ pl_calls[2].arg.k = "float"
    /\ pl_calls[2].arg.v = "1.0" /\ pl_calls[3].arg.k = "bool"
    /\ pl_calls[4].arg.k = "int"
    /\ pl_calls[4].index = 0
    /\ Len(pl_code.constants) = 3

(***************************************************************************)
(*          THE INTERACTIVE SHELL (kilat_repl.py, class KilatREPL)         *)
(*                                                                         *)
(* A line the user types is given by its text without the surrounding      *)
(* blanks, its indentation, the tokens KilatLexer2 finds on it, and        *)
(* whether it leaves a string literal open.  What the shell wrote is kept  *)
(* per prompt: rp_st.out holds the output since the last input.            *)
(***************************************************************************)
Line(text, indent, toks, unterminated) ==
    [text |-> text, indent |-> indent, toks |-> toks, unterminated |-> unterminated]

\* The names KilatLexer2.handle_indentation appended, as tokens.
Marks(names) == [i \in 1..Len(names) |-> Token(names[i], "")]

\* KilatLexer2(source).tokenize() for the source '\n'.join(lines), with a
\* final newline or without: [tokens, error].
RECURSIVE tokenize_lines(_, _, _)
tokenize_lines(lines, L, final_newline) ==
    IF lines = <<>>
    THEN [tokens |-> L.tokens \o Marks(RemainingDedents(L.indent_stack, <<>>).tokens)
                        \o <<Token("EOF", "")>>,
          error |-> ""]
    ELSE IF Head(lines).unterminated THEN [tokens |-> <<>>, error |-> "SyntaxError"]
    ELSE Only({ IF H.lex_state = "SyntaxError"
                THEN [tokens |-> <<>>, error |-> "SyntaxError"]
                ELSE tokenize_lines(
                        Tail(lines),
                        [H EXCEPT !.tokens =
                            L.tokens \o Marks(H.tokens) \o Head(lines).toks
                               \o (IF Len(lines) > 1 \/ final_newline
                                   THEN <<Token("NEWLINE", "\n")>> ELSE <<>>)],
                        final_newline)
                : H \in {handle_indentation([L EXCEPT !.tokens = <<>>],
                                            Head(lines).indent)} })

\* source.strip(): the first line loses its indentation.
Stripped(lines) == [lines EXCEPT ![1].indent = 0]

\* The last non-empty line ends with ':'.
EndsWithColon(lines) ==
    /\ Last(lines).toks # <<>>
    /\ Last(Last(lines).toks).type = "COLON"

\* KilatREPL._is_complete('\n'.join(buffer)).
_is_complete(buffer) ==
    IF buffer = <<>> THEN TRUE
    ELSE IF EndsWithColon(buffer) THEN FALSE
    ELSE tokenize_lines(buffer, NewLexer, TRUE).error = ""

\* The loop of _execute over ast.statements: a result other than None is
\* written with repr; the first statement that raises ends the snippet.
RECURSIVE run_statements(_, _)
run_statements(statements, st) ==
    IF statements = <<>> THEN [st |-> st, result |-> "ok"]
    ELSE Only({ IF ~r.ok THEN [st |-> r.st, result |-> r.val.k]
                ELSE run_statements(
                        Tail(statements),
                        IF r.val.k # "none"
                        THEN [r.st EXCEPT !.out = Append(@, PyRepr(r.val))]
                        ELSE r.st)
                : r \in {execute(Head(statements), 1, st)} })

\* What parse_kilat gives for a snippet: the tree, or the error.
parse_kilat(lines) ==
    Only({ IF lexed.error # "" THEN SyntaxErrorAt(0) ELSE parse(lexed.tokens)
           : lexed \in {tokenize_lines(lines, NewLexer, FALSE)} })

\* A shell whose snippets each start from a fresh interpreter.
_execute_FreshEnv(st, buffer) ==
    Only({ IF tree.error # "" THEN [st |-> st, result |-> tree.error]
           ELSE run_statements(tree.node.statements, StartState)
           : tree \in {parse_kilat(Stripped(buffer))} })

\* KilatREPL._execute: parse the snippet and run its statements in the
\* interpreter's global environment; every error is reported and swallowed.
_execute(st, buffer) ==
    Only({ IF tree.error # "" THEN [st |-> st, result |-> tree.error]
           ELSE run_statements(tree.node.statements, st)
           : tree \in {parse_kilat(Stripped(buffer))} })

ExitWords == {"keluar", "exit", "quit"}

\* The lines typed:  x = 1,  x,  jika x:,  an indented  x = 2,  x = (1 +,
\* bangkit "b",  s = "a  with the string left open, the empty line and the
\* exit words.
ReplLines ==
    { Line("x = 1", 0, <<Token("IDENTIFIER", "x"), Token("ASSIGN", "="),
                         Token("NUMBER", 1)>>, FALSE),
      Line("x", 0, <<Token("IDENTIFIER", "x")>>, FALSE),
      Line("jika x:", 0, <<Token("JIKA", "jika"), Token("IDENTIFIER", "x"),
                           Token("COLON", ":")>>, FALSE),
      Line("x = 2", 4, <<Token("IDENTIFIER", "x"), Token("ASSIGN", "="),
                         Token("NUMBER", 2)>>, FALSE),
      Line("x = (1 +", 0, <<Token("IDENTIFIER", "x"), Token("ASSIGN", "="),
                            Token("LPAREN", "("), Token("NUMBER", 1),
                            Token("PLUS", "+")>>, FALSE),
      Line("bangkit \"b\"", 0, <<Token("BANGKIT", "bangkit"), Token("STRING", "b")>>,
           FALSE),
      Line("s = \"a", 0, <<>>, TRUE),
      Line("", 0, <<>>, FALSE) }
       \cup { Line(w, 0, <<Token("IDENTIFIER", w)>>, FALSE) : w \in ExitWords }

\* What an input did: the kind of input, the buffer it left to be judged
\* (with the line appended), whether _execute was called and how it ended.
Did(kind, candidate, executed, result) ==
    [kind |-> kind, candidate |-> candidate, executed |-> executed, result |-> result]

NoInput == Did("none", <<>>, FALSE, "none")

\* The shell after _execute(buffer): the buffer is emptied.
Executed(kind, buffer, done) ==
    [buffer |-> <<>>, st |-> done.st, running |-> TRUE,
     last |-> Did(kind, buffer, TRUE, done.result)]

\* One round of the loop of run for a line read by input().
run_line(buffer, st, line) ==
    IF line.text \in ExitWords
    THEN [buffer |-> buffer, st |-> st, running |-> FALSE,
          last |-> Did("exit", buffer, FALSE, "none")]
    ELSE IF line.text = "" /\ buffer # <<>>
    THEN Executed("blank", buffer, _execute(st, buffer))
    ELSE IF line.text = ""
    THEN [buffer |-> buffer, st |-> st, running |-> TRUE,
          last |-> Did("blank", buffer, FALSE, "none")]
    ELSE IF _is_complete(Append(buffer, line))
    THEN Executed("line", Append(buffer, line), _execute(st, Append(buffer, line)))
    ELSE [buffer |-> Append(buffer, line), st |-> st, running |-> TRUE,
          last |-> Did("line", Append(buffer, line), FALSE, "none")]

SetShell(S) ==
    /\ rp_buffer' = S.buffer
    /\ rp_st' = S.st
    /\ rp_running' = S.running
    /\ rp_last' = S.last

ReplInit ==
    /\ rp_buffer = <<>>
    /\ rp_st = StartState
    /\ rp_running = TRUE
    /\ rp_last = NoInput
    /\ rp_inputs = 0

ReplIdle ==
    /\ rp_buffer = <<>>
    /\ rp_st = StartState
    /\ rp_running = FALSE
    /\ rp_last = NoInput
    /\ rp_inputs = 0

\* input(prompt) returns a line.
ReadLine ==
    /\ rp_running
    /\ rp_inputs < MaxInputs
    /\ \E line \in ReplLines :
          SetShell(run_line(rp_buffer, [rp_st EXCEPT !.out = <<>>, !.ev = <<>>], line))
    /\ rp_inputs' = rp_inputs + 1
    /\ UNCHANGED notRepl

\* input(prompt) raises EOFError: break.
EndOfInput ==
    /\ rp_running
    /\ rp_inputs < MaxInputs
    /\ rp_running' = FALSE
    /\ rp_last' = Did("eof", rp_buffer, FALSE, "none")
    /\ rp_st' = [rp_st EXCEPT !.out = <<>>, !.ev = <<>>]
    /\ rp_inputs' = rp_inputs + 1
    /\ UNCHANGED rp_buffer
    /\ UNCHANGED notRepl

\* KeyboardInterrupt at the prompt: buffer = [].
Interrupt ==
    /\ rp_running
    /\ rp_inputs < MaxInputs
    /\ rp_buffer' = <<>>
    /\ rp_last' = Did("interrupt", rp_buffer, FALSE, "none")
    /\ rp_st' = [rp_st EXCEPT !.out = <<>>, !.ev = <<>>]
    /\ rp_inputs' = rp_inputs + 1
    /\ UNCHANGED rp_running
    /\ UNCHANGED notRepl

ReplNext == ReadLine \/ EndOfInput \/ Interrupt

\* The buffer parses without error, as _execute would parse it.
ParsesWithoutError(buffer) == parse_kilat(Stripped(buffer)).error = ""

\* C24: the shell executes the accumulated buffer exactly when the buffer
\* parses without error and its last non-empty line does not end with ':';
\* a buffer that does not yet parse, or whose block is still open, is not
\* executed and stays in the buffer.
C24_ExecutedWhenComplete ==
    (rp_last.kind \in {"line", "blank"} /\ rp_last.candidate # <<>>)
       => /\ rp_last.executed
                <=> (/\ ParsesWithoutError(rp_last.candidate)
                     /\ ~EndsWithColon(rp_last.candidate))
          /\ ~rp_last.executed => rp_buffer = rp_last.candidate

\* The names bound in the global environment of the interpreter.
GlobalNames(st) == DOMAIN st.envs[1].variables

\* How a snippet can fail.
SnippetErrors == {"SyntaxError", "KilatRuntimeError", "KilatException"}

RECURSIVE Deref(_, _)
Deref(heap, v) ==
    IF v.k = "ref" THEN ListV([i \in 1..Len(heap[v.v]) |-> Deref(heap, heap[v.v][i])])
    ELSE v

\* The running frame with its topmost n stack values replaced by their contents.
deref_top(m, n) ==
    [m.vm EXCEPT !.frames[Len(m.vm.frames)].stack =
        [i \in 1..Len(@) |-> IF i > Len(@) - n THEN Deref(m.heap, @[i]) ELSE @[i]]]

\* One iteration of the dispatch loop of _execute_frame.
\*   BUILD_LIST 0: a new, empty list object;
\*   LOAD_ATTR append on a list object: its bound method;
\*   CALL_FUNCTION of that bound method: the argument is appended, None is pushed;
\*   CALL_FUNCTION of a builtin: the builtin sees the contents of its arguments.
lc_step(m) ==
    LET frame == top(m.vm)
        s == frame.stack
    IN IF frame.ip >= Len(frame.code.instructions) THEN [m EXCEPT !.vm = vm_step(m.vm)]
       ELSE LET instr == frame.code.instructions[frame.ip + 1]
                next == jump(m.vm, frame.ip + 1)
            IN CASE instr.opcode = "BUILD_LIST" /\ instr.arg = 0 ->
                        [vm |-> push(next, Val("ref", Len(m.heap) + 1)),
                         heap |-> Append(m.heap, <<>>)]
                 [] /\ instr.opcode = "LOAD_ATTR"
                    /\ s # <<>>
                    /\ Last(s).k = "ref"
                    /\ frame.code.names[instr.arg + 1] = "append" ->
                        [m EXCEPT !.vm = push(drop(next, 1), Val("append", Last(s).v))]
                 [] /\ instr.opcode = "CALL_FUNCTION"
                    /\ instr.arg = 1
                    /\ Len(s) >= 2
                    /\ s[Len(s) - 1].k = "append" ->
                        [vm |-> push(drop(next, 2), NoneV),
                         heap |-> [m.heap EXCEPT ![s[Len(s) - 1].v] = Append(@, Last(s))]]
                 [] /\ instr.opcode = "CALL_FUNCTION"
                    /\ Len(s) > instr.arg
                    /\ s[Len(s) - instr.arg].k = "builtin" ->
                        [m EXCEPT !.vm = vm_step(deref_top(m, instr.arg))]
                 [] OTHER -> [m EXCEPT !.vm = vm_step(m.vm)]

\* [j * n untuk j dalam [1, 2]]
Multiples ==
    ListCompNode(BinaryOpNode(Id("j"), "*", Id("n")), "j", ListNode(<<Num(1), Num(2)>>),
                 NoNode)

\* fungsi f(n):
\*     y = -n        (aligned; otherwise y = n, one instruction less)
\*     kembali [j * n untuk j dalam [1, 2]]
Inner(aligned) ==
    FunctionDefNode("f", <<"n">>, <<>>, NoName, NoName, <<
        AssignmentNode("y", IF aligned THEN UnaryOpNode("-", Id("n")) ELSE Id("n")),
        ReturnNode(Multiples) >>)

\* [f(i) untuk i dalam [1, ..., k]]
Outer(k) ==
    ListCompNode(Call("f", <<Id("i")>>), "i", ListNode([x \in 1..k |-> Num(x)]), NoNode)

\* <f>                                     fungsi g():
\* r = [f(i) untuk i dalam [1, ..., k]]        <f>
\* cetak(r)                                    kembali [f(i) untuk i dalam [1, ..., k]]
\*                                         cetak(g())
\* With f aligned, the comprehension of f and the one that calls f are both
\* at instruction 3 of their code objects.
CompProgram(aligned, nested, k) ==
    ProgramNode(
        IF nested
        THEN <<FunctionDefNode("g", <<>>, <<>>, NoName, NoName,
                               <<Inner(aligned), ReturnNode(Outer(k))>>),
               Cetak(<<Call("g", <<>>)>>)>>
        ELSE <<Inner(aligned), AssignmentNode("r", Outer(k)), Cetak(<<Id("r")>>)>>)

\* fungsi f(n):
\*     jika n == 0:
\*         kembali []
\*     kembali [f(n - 1) untuk j dalam [1, 2]]
\* cetak(f(k))
RecursiveComp(k) ==
    ProgramNode(<<
        FunctionDefNode("f", <<"n">>, <<>>, NoName, NoName, <<
            IfNode(BinaryOpNode(Id("n"), "==", Num(0)), <<ReturnNode(ListNode(<<>>))>>, <<>>),
            ReturnNode(ListCompNode(Call("f", <<BinaryOpNode(Id("n"), "-", Num(1))>>), "j",
                                    ListNode(<<Num(1), Num(2)>>), NoNode)) >>),
        Cetak(<<Call("f", <<Num(k)>>)>>) >>)

CompPrograms ==
    { CompProgram(aligned, nested, k) :
        aligned \in BOOLEAN, nested \in BOOLEAN, k \in 1..MaxValue }
        \cup { RecursiveComp(k) : k \in 1..MaxValue }

NoMachine == [vm |-> NoVM, heap |-> <<>>]

CompInit ==
    /\ lc_program \in CompPrograms
    /\ lc_stage = "source"
    /\ lc_native = NoRun
    /\ lc_m = NoMachine

CompIdle ==
    /\ lc_program = ProgramNode(<<>>)
    /\ lc_stage = "idle"
    /\ lc_native = NoRun
    /\ lc_m = NoMachine

\* kilat.py --native: run_kilat(source).
CompNative ==
    /\ lc_stage = "source"
    /\ lc_native' = interpret(lc_program)
    /\ lc_stage' = "native"
    /\ UNCHANGED <<lc_program, lc_m>>
    /\ UNCHANGED notComp

\* kilat.py --bytecode: run_bytecode(source) up to the call of vm.run.
CompLoad ==
    /\ lc_stage = "native"
    /\ lc_m' = [vm |-> load_vm(compile_program(lc_program)), heap |-> <<>>]
    /\ lc_stage' = "bytecode"
    /\ UNCHANGED <<lc_program, lc_native>>
    /\ UNCHANGED notComp

\* One iteration of the dispatch loop of the running frame.
CompStep ==
    /\ lc_stage = "bytecode"
    /\ lc_m.vm.status = "running"
    /\ lc_m' = lc_step(lc_m)
    /\ UNCHANGED <<lc_program, lc_native, lc_stage>>
    /\ UNCHANGED notComp

CompNext == CompNative \/ CompLoad \/ CompStep

CompDone == lc_stage = "bytecode" /\ lc_m.vm.status # "running"

\* C38: the accumulator of a list comprehension belongs to one evaluation of
\* that comprehension: a comprehension evaluated meanwhile, in a function
\* called from the element expression, in a nested function with a
\* comprehension at the same instruction offset, or recursively, does not
\* touch it, so the machine yields the lists the interpreter yields.
C38_PrivateAccumulator ==
    CompDone => /\ lc_m.vm.status = "exit0"
                /\ lc_m.vm.out = lc_native.out

(***************************************************************************)
(*                          SPECIFICATIONS                                 *)
(***************************************************************************)
InitLex == LexInit /\ TruthIdle /\ CompileIdle /\ RunIdle /\ CallIdle /\ ScopeIdle /\ AttrIdle /\ IndentIdle /\ LoadIdle /\ ParseIdle /\ PoolIdle /\ ReplIdle /\ CompIdle

SpecLex == InitLex /\ [][LexNext]_vars

InitTruth == TruthInit /\ LexIdle /\ CompileIdle /\ RunIdle /\ CallIdle /\ ScopeIdle /\ AttrIdle /\ IndentIdle /\ LoadIdle /\ ParseIdle /\ PoolIdle /\ ReplIdle /\ CompIdle

SpecTruth == InitTruth /\ [][TruthNext]_vars

InitCompile == CompileInit /\ LexIdle /\ TruthIdle /\ RunIdle /\ CallIdle /\ ScopeIdle /\ AttrIdle /\ IndentIdle /\ LoadIdle /\ ParseIdle /\ PoolIdle /\ ReplIdle /\ CompIdle

SpecCompile == InitCompile /\ [][CompileNext]_vars

InitRun == RunInit /\ LexIdle /\ TruthIdle /\ CompileIdle /\ CallIdle /\ ScopeIdle /\ AttrIdle /\ IndentIdle /\ LoadIdle /\ ParseIdle /\ PoolIdle /\ ReplIdle /\ CompIdle

SpecRun == InitRun /\ [][RunNext]_vars

InitCall == CallInit /\ LexIdle /\ TruthIdle /\ CompileIdle /\ RunIdle /\ ScopeIdle /\ AttrIdle /\ IndentIdle /\ LoadIdle /\ ParseIdle /\ PoolIdle /\ ReplIdle /\ CompIdle

SpecCall == InitCall /\ [][CallNext]_vars

InitScope == ScopeInit /\ LexIdle /\ TruthIdle /\ CompileIdle /\ RunIdle /\ CallIdle /\ AttrIdle /\ IndentIdle /\ LoadIdle /\ ParseIdle /\ PoolIdle /\ ReplIdle /\ CompIdle

SpecScope == InitScope /\ [][ScopeNext]_vars

InitAttr ==
    AttrInit /\ LexIdle /\ TruthIdle /\ CompileIdle /\ RunIdle /\ CallIdle /\ ScopeIdle
        /\ IndentIdle /\ LoadIdle /\ ParseIdle /\ PoolIdle /\ ReplIdle /\ CompIdle

SpecAttr == InitAttr /\ [][AttrNext]_vars

InitIndent ==
    IndentInit /\ LexIdle /\ TruthIdle /\ CompileIdle /\ RunIdle /\ CallIdle /\ ScopeIdle
        /\ AttrIdle /\ LoadIdle /\ ParseIdle /\ PoolIdle /\ ReplIdle /\ CompIdle

SpecIndent == InitIndent /\ [][IndentNext]_vars

InitLoad ==
    LoadInit /\ LexIdle /\ TruthIdle /\ CompileIdle /\ RunIdle /\ CallIdle /\ ScopeIdle
        /\ AttrIdle /\ IndentIdle /\ ParseIdle /\ PoolIdle /\ ReplIdle /\ CompIdle

SpecLoad == InitLoad /\ [][LoadNext]_vars

InitParse ==
    ParseInit /\ LexIdle /\ TruthIdle /\ CompileIdle /\ RunIdle /\ CallIdle /\ ScopeIdle
        /\ AttrIdle /\ IndentIdle /\ LoadIdle /\ PoolIdle /\ ReplIdle /\ CompIdle

SpecParse == InitParse /\ [][ParseNext]_vars

InitPool ==
    PoolInit /\ LexIdle /\ TruthIdle /\ CompileIdle /\ RunIdle /\ CallIdle /\ ScopeIdle
        /\ AttrIdle /\ IndentIdle /\ LoadIdle /\ ParseIdle /\ ReplIdle /\ CompIdle

SpecPool == InitPool /\ [][PoolNext]_vars

InitRepl ==
    ReplInit /\ LexIdle /\ TruthIdle /\ CompileIdle /\ RunIdle /\ CallIdle /\ ScopeIdle
        /\ AttrIdle /\ IndentIdle /\ LoadIdle /\ ParseIdle /\ PoolIdle /\ CompIdle

SpecRepl == InitRepl /\ [][ReplNext]_vars

InitComp ==
    CompInit /\ LexIdle /\ TruthIdle /\ CompileIdle /\ RunIdle /\ CallIdle /\ ScopeIdle
        /\ AttrIdle /\ IndentIdle /\ LoadIdle /\ ParseIdle /\ PoolIdle /\ ReplIdle

SpecComp == InitComp /\ [][CompNext]_vars

====
